---- MODULE Spec2Model ----
(***************************************************************************)
(* Product catalog: the Product aggregate (status state machine, discount  *)
(* lifecycle, change tracking, raised events), its value objects, and the  *)
(* commit pipeline of the use-case interactors (load, domain call, plan    *)
(* assembly, atomic commit against the store).                             *)
(*                                                                         *)
(* Specifications:                                                         *)
(*   Spec         one Product instance driven by its business methods      *)
(*   SpecPricing  the discount lifecycle of one Product and its price      *)
(*   SpecValues   the value objects Money and Discount                     *)
(*   SpecUseCase  interactor executions against the product/outbox tables  *)
(*   SpecPlan     the assembly of one commit plan, one Plan.Add at a time  *)
(*   SpecQuery    GetProduct on the read model after use-case executions   *)
(*   SpecList     a ListProducts walk over the stored products             *)
(***************************************************************************)
EXTENDS Integers, Sequences, FiniteSets, TLC

VARIABLES
    product,    \* the aggregate instance under test (Spec)
    lastCall,   \* the last business-method call: operation, arguments, error, aggregate before it
    store,      \* products table: product id -> row (SpecUseCase)
    outbox,     \* outbox_events table, in commit order (SpecUseCase)
    execs,      \* the interactor executions, in the order they started (SpecUseCase)
    uuid,       \* how many values uuid.New() has handed out (SpecUseCase)
    calc,       \* the last value-object operation: name, operands, result (SpecValues)
    staged,     \* the mutations slice of the Plan under assembly (SpecPlan)
    added,      \* the Plan.Add calls made so far: what asked for the mutation, and the argument (SpecPlan)
    asked,      \* the requests of the executions started, in the order of execs (SpecQuery)
    reply       \* the query replies: the last GetProduct (SpecQuery), the ListProducts walk (SpecList)

vars == <<product, lastCall, store, outbox, execs, uuid, calc, staged, added, asked, reply>>
aggVars == <<product, lastCall>>
ucVars == <<store, outbox, execs, uuid>>
valVars == <<calc>>
planVars == <<staged, added>>
qryVars == <<asked, reply>>

----------------------------------------------------------------------------
(* Bounds *)

\* instants are ticks 0..MaxTime; a second holds TicksPerSecond ticks
MaxTime == 1
TicksPerSecond == 1
\* business-method calls are cut off once they have raised MaxRaised events
MaxRaised == 2
\* use-case executions started in one behaviour
MaxRuns == 2
\* numerators and denominators tried are -MaxPart..MaxPart
MaxPart == 2
\* Money operations chained on the value a factory returned
MaxChain == 2
\* products a listed table holds
MaxStored == 3
\* ListProducts calls of one walk
MaxCalls == 3

\* the width in bits given to Go's int64.  The checker's own integers are
\* 32 bits wide, so the 64-bit width is scaled down; the two's-complement
\* wrap-around of Go's integer arithmetic is kept, and big.Rat stays exact.
Int64Bits == 24
MaxInt64 == 2 ^ (Int64Bits - 1) - 1

Times == 0 .. MaxTime
\* readings of the wall clock (time.Now()), which no caller controls
WallTimes == {MaxTime + 1}

----------------------------------------------------------------------------
(* Optional values: a nil pointer is <<>>, a set pointer is <<v>> *)

Nil == <<>>
Some(v) == <<v>>
IsNil(o) == o = <<>>
Val(o) == o[1]

\* time.Time{} (the zero instant, before every other instant)
ZeroTime == -1
IsZero(t) == t = ZeroTime
\* time.Time.Unix(): whole seconds since the epoch
Unix(t) == t \div TicksPerSecond
\* time.Unix(sec, 0)
FromUnix(sec) == sec * TicksPerSecond

----------------------------------------------------------------------------
(* Errors (domain_errors.go) *)

NoErr == "nil"
ErrProductNotFound == "ErrProductNotFound"
ErrProductNotActive == "ErrProductNotActive"
ErrProductAlreadyActive == "ErrProductAlreadyActive"
ErrProductIsArchived == "ErrProductIsArchived"
ErrInvalidDiscountPeriod == "ErrInvalidDiscountPeriod"
ErrDiscountOutOfRange == "ErrDiscountOutOfRange"
ErrNoActiveDiscount == "ErrNoActiveDiscount"
ErrInvalidName == "ErrInvalidName"
ErrInvalidCategory == "ErrInvalidCategory"
ErrInvalidPrice == "ErrInvalidPrice"
ErrInvalidDateRange == "ErrInvalidDateRange"

----------------------------------------------------------------------------
(* Money: an exact rational, kept by big.Rat in lowest terms with a        *)
(* positive denominator                                                    *)

Abs(n) == IF n < 0 THEN -n ELSE n

RECURSIVE GCD(_, _)
GCD(a, b) == IF b = 0 THEN a ELSE GCD(b, a % b)

\* big.NewRat(a, b), b # 0
NewRat(a, b) ==
    LET g == GCD(Abs(a), Abs(b))
        s == IF b < 0 THEN -1 ELSE 1
    IN  [num |-> (s * a) \div g, den |-> (s * b) \div g]

\* a factory that wants both parts positive
NewMoneyPositiveParts(numerator, denominator) ==
    IF denominator <= 0 \/ numerator <= 0
    THEN [m |-> Nil, err |-> ErrInvalidPrice]
    ELSE [m |-> Some(NewRat(numerator, denominator)), err |-> NoErr]

NewMoney(numerator, denominator) ==
    IF denominator = 0
    THEN [m |-> Nil, err |-> ErrInvalidPrice]
    ELSE LET rat == NewRat(numerator, denominator)
         IN  IF rat.num <= 0
             THEN [m |-> Nil, err |-> ErrInvalidPrice]
             ELSE [m |-> Some(rat), err |-> NoErr]

Numerator(m) == IF IsNil(m) THEN 0 ELSE Val(m).num
Denominator(m) == IF IsNil(m) THEN 0 ELSE Val(m).den

\* big.Rat Mul, Sub, Add and Cmp: exact, results in lowest terms
RatMul(x, y) == NewRat(x.num * y.num, x.den * y.den)
RatSub(x, y) == NewRat(x.num * y.den - y.num * x.den, x.den * y.den)
RatAdd(x, y) == NewRat(x.num * y.den + y.num * x.den, x.den * y.den)
Cmp(x, y) ==
    LET diff == x.num * y.den - y.num * x.den
    IN  IF diff < 0 THEN -1 ELSE IF diff > 0 THEN 1 ELSE 0

\* a percentage applied by scaling the numerator with integer division
ApplyPercentageTruncating(m, percentage) ==
    IF IsNil(m) THEN [recv |-> m, m |-> Nil, err |-> ErrInvalidPrice]
    ELSE IF percentage < 0 \/ percentage > 100
    THEN [recv |-> m, m |-> Nil, err |-> ErrDiscountOutOfRange]
    ELSE [recv |-> m,
          m |-> Some(NewRat((Val(m).num * (100 - percentage)) \div 100, Val(m).den)),
          err |-> NoErr]

ApplyPercentage(m, percentage) ==
    IF IsNil(m) THEN [recv |-> m, m |-> Nil, err |-> ErrInvalidPrice]
    ELSE IF percentage < 0 \/ percentage > 100
    THEN [recv |-> m, m |-> Nil, err |-> ErrDiscountOutOfRange]
    ELSE LET discount == RatMul(Val(m), NewRat(percentage, 100))
             finalPrice == RatSub(Val(m), discount)
         IN  [recv |-> m, m |-> Some(finalPrice), err |-> NoErr]

Add(m, other) ==
    IF IsNil(m) \/ IsNil(other) THEN [recv |-> m, m |-> Nil, err |-> ErrInvalidPrice]
    ELSE [recv |-> m, m |-> Some(RatAdd(Val(m), Val(other))), err |-> NoErr]

Equals(m, other) ==
    IF IsNil(m) \/ IsNil(other) THEN IsNil(m) /\ IsNil(other)
    ELSE Cmp(Val(m), Val(other)) = 0

GreaterThan(m, other) ==
    IF IsNil(m) THEN FALSE
    ELSE IF IsNil(other) THEN TRUE
    ELSE Cmp(Val(m), Val(other)) > 0

----------------------------------------------------------------------------
(* Discount *)

\* a factory that rejects the one-instant window
NewDiscountStrictWindow(percentage, startDate, endDate) ==
    IF percentage < 0 \/ percentage > 100
    THEN [d |-> Nil, err |-> ErrDiscountOutOfRange]
    ELSE IF ~(startDate < endDate)
         THEN [d |-> Nil, err |-> ErrInvalidDateRange]
         ELSE [d |-> Some([percentage |-> percentage,
                           startDate |-> startDate,
                           endDate |-> endDate]),
               err |-> NoErr]

NewDiscount(percentage, startDate, endDate) ==
    IF percentage < 0 \/ percentage > 100
    THEN [d |-> Nil, err |-> ErrDiscountOutOfRange]
    ELSE IF endDate < startDate
         THEN [d |-> Nil, err |-> ErrInvalidDateRange]
         ELSE [d |-> Some([percentage |-> percentage,
                           startDate |-> startDate,
                           endDate |-> endDate]),
               err |-> NoErr]

Percentage(d) == IF IsNil(d) THEN 0 ELSE Val(d).percentage
StartDate(d) == IF IsNil(d) THEN ZeroTime ELSE Val(d).startDate
EndDate(d) == IF IsNil(d) THEN ZeroTime ELSE Val(d).endDate

IsActiveAt(d, t) ==
    IF IsNil(d) THEN FALSE
    ELSE ~(t < Val(d).startDate) /\ ~(t > Val(d).endDate)

IsValidAtStrict(d, now) ==
    IF IsNil(d) THEN FALSE
    ELSE now < Val(d).endDate

\* a validity test that also wants the window to have started
IsValidAtFromStart(d, now) ==
    IF IsNil(d) THEN FALSE
    ELSE ~(now < Val(d).startDate) /\ ~(now > Val(d).endDate)

IsValidAt(d, now) ==
    IF IsNil(d) THEN FALSE
    ELSE now < Val(d).endDate \/ now = Val(d).endDate

----------------------------------------------------------------------------
(* ChangeTracker: the set of dirty field tokens *)

FieldID == "id"
FieldName == "name"
FieldDescription == "description"
FieldCategory == "category"
FieldBasePrice == "base_price"
FieldDiscount == "discount"
FieldStatus == "status"
FieldArchivedAt == "archived_at"

NewChangeTracker == {}
MarkDirtyNilTracker(ct, field) == ct

MarkDirty(ct, field) == ct \cup {field}
Dirty(ct, field) == field \in ct
HasChanges(ct) == Cardinality(ct) > 0

----------------------------------------------------------------------------
(* Domain events; occurredAt is read from the wall clock by NewBaseEvent   *)

NewBaseEvent(aggregateID, eventType, wall) ==
    [aggregateID |-> aggregateID, eventType |-> eventType, occurredAt |-> wall]

NewProductCreatedEvent(aggregateID, name, category, numerator, denominator, wall) ==
    [base |-> NewBaseEvent(aggregateID, "product.created", wall),
     data |-> [Name |-> name, Category |-> category,
               BasePriceNumerator |-> numerator,
               BasePriceDenominator |-> denominator]]

NewProductUpdatedEvent(aggregateID, wall) ==
    [base |-> NewBaseEvent(aggregateID, "product.updated", wall), data |-> <<>>]

NewProductActivatedEvent(aggregateID, wall) ==
    [base |-> NewBaseEvent(aggregateID, "product.activated", wall), data |-> <<>>]

NewProductDeactivatedEvent(aggregateID, wall) ==
    [base |-> NewBaseEvent(aggregateID, "product.deactivated", wall), data |-> <<>>]

NewProductArchivedEvent(aggregateID, wall) ==
    [base |-> NewBaseEvent(aggregateID, "product.archived", wall), data |-> <<>>]

NewDiscountAppliedEvent(aggregateID, discountPercent, startDate, endDate, wall) ==
    [base |-> NewBaseEvent(aggregateID, "discount.applied", wall),
     data |-> [DiscountPercent |-> discountPercent,
               StartDate |-> startDate, EndDate |-> endDate]]

NewDiscountRemovedEvent(aggregateID, wall) ==
    [base |-> NewBaseEvent(aggregateID, "discount.removed", wall), data |-> <<>>]

EventType(e) == e.base.eventType

----------------------------------------------------------------------------
(* Product aggregate *)

ProductStatusActive == "active"
ProductStatusInactive == "inactive"
ProductStatusArchived == "archived"

recordEventFront(p, event) == [p EXCEPT !.events = <<event>> \o @]

recordEvent(p, event) == [p EXCEPT !.events = Append(@, event)]

\* p.changes.MarkDirty(field)
markDirty(p, field) == [p EXCEPT !.changes = MarkDirty(@, field)]

NewProduct(id, name, description, category, basePrice, now, wall) ==
    IF id = "" THEN [p |-> Nil, err |-> ErrInvalidName]
    ELSE IF name = "" THEN [p |-> Nil, err |-> ErrInvalidName]
    ELSE IF category = "" THEN [p |-> Nil, err |-> ErrInvalidCategory]
    ELSE IF IsNil(basePrice) THEN [p |-> Nil, err |-> ErrInvalidPrice]
    ELSE LET p0 == [id |-> id, name |-> name, description |-> description,
                    category |-> category, basePrice |-> basePrice,
                    discount |-> Nil, status |-> ProductStatusActive,
                    createdAt |-> now, updatedAt |-> now, archivedAt |-> Nil,
                    changes |-> {FieldID, FieldName, FieldDescription,
                                 FieldCategory, FieldBasePrice, FieldStatus},
                    events |-> <<>>, version |-> 0]
         IN  [p |-> Some(recordEvent(p0,
                        NewProductCreatedEvent(id, name, category,
                            Numerator(basePrice), Denominator(basePrice), wall))),
              err |-> NoErr]

ReconstructProduct(id, name, description, category, basePriceNum, basePriceDenom, discountPercent, discountStart, discountEnd, status, createdAt, updatedAt, archivedAt, version) ==
    LET price == NewMoney(basePriceNum, basePriceDenom)
        hasDiscount == ~IsZero(discountStart) /\ ~IsZero(discountEnd)
        disc == IF hasDiscount
                THEN NewDiscount(discountPercent, discountStart, discountEnd)
                ELSE [d |-> Nil, err |-> NoErr]
    IN  IF price.err # NoErr THEN [p |-> Nil, err |-> price.err]
        ELSE IF disc.err # NoErr THEN [p |-> Nil, err |-> disc.err]
        ELSE [p |-> Some([id |-> id, name |-> name, description |-> description,
                          category |-> category, basePrice |-> price.m,
                          discount |-> disc.d, status |-> status,
                          createdAt |-> createdAt, updatedAt |-> updatedAt,
                          archivedAt |-> archivedAt, changes |-> NewChangeTracker,
                          events |-> <<>>, version |-> version]),
              err |-> NoErr]

\* the three compare-and-set blocks of UpdateDetails, one field each
\* an assignment that marks its field dirty whether or not the value differs
setAlways(p, field, token, value) ==
    markDirty([p EXCEPT ![field] = value], token)

setIfChanged(p, field, token, value) ==
    IF p[field] # value
    THEN markDirty([p EXCEPT ![field] = value], token)
    ELSE p

\* an UpdateDetails that stores the name before it validates the category
UpdateDetailsRenamesFirst(p, name, description, category, now, wall) ==
    IF p.status = ProductStatusArchived THEN [p |-> p, err |-> ErrProductIsArchived]
    ELSE IF name = "" THEN [p |-> p, err |-> ErrInvalidName]
    ELSE LET p1 == setIfChanged(p, "name", FieldName, name)
             p2 == setIfChanged(p1, "description", FieldDescription, description)
             p3 == setIfChanged(p2, "category", FieldCategory, category)
             updated == p.name # name \/ p.description # description
                        \/ p.category # category
         IN  IF category = "" THEN [p |-> p1, err |-> ErrInvalidCategory]
             ELSE IF updated
             THEN [p |-> recordEvent(
                            markDirty([p3 EXCEPT !.updatedAt = now], FieldStatus),
                            NewProductUpdatedEvent(p.id, wall)),
                   err |-> NoErr]
             ELSE [p |-> p3, err |-> NoErr]

UpdateDetails(p, name, description, category, now, wall) ==
    IF p.status = ProductStatusArchived THEN [p |-> p, err |-> ErrProductIsArchived]
    ELSE IF name = "" THEN [p |-> p, err |-> ErrInvalidName]
    ELSE IF category = "" THEN [p |-> p, err |-> ErrInvalidCategory]
    ELSE LET p1 == setIfChanged(p, "name", FieldName, name)
             p2 == setIfChanged(p1, "description", FieldDescription, description)
             p3 == setIfChanged(p2, "category", FieldCategory, category)
             updated == p.name # name \/ p.description # description
                        \/ p.category # category
         IN  IF updated
             THEN [p |-> recordEvent(
                            markDirty([p3 EXCEPT !.updatedAt = now], FieldStatus),
                            NewProductUpdatedEvent(p.id, wall)),
                   err |-> NoErr]
             ELSE [p |-> p3, err |-> NoErr]

ActivateUnchecked(p, now, wall) ==
    IF p.status = ProductStatusArchived THEN [p |-> p, err |-> ErrProductIsArchived]
    ELSE [p |-> recordEvent(
                   markDirty([p EXCEPT !.status = ProductStatusActive,
                                       !.updatedAt = now], FieldStatus),
                   NewProductActivatedEvent(p.id, wall)),
          err |-> NoErr]

Activate(p, now, wall) ==
    IF p.status = ProductStatusArchived THEN [p |-> p, err |-> ErrProductIsArchived]
    ELSE IF p.status = ProductStatusActive THEN [p |-> p, err |-> ErrProductAlreadyActive]
    ELSE [p |-> recordEvent(
                   markDirty([p EXCEPT !.status = ProductStatusActive,
                                       !.updatedAt = now], FieldStatus),
                   NewProductActivatedEvent(p.id, wall)),
          err |-> NoErr]

DeactivateAlways(p, now, wall) ==
    IF p.status = ProductStatusArchived THEN [p |-> p, err |-> ErrProductIsArchived]
    ELSE [p |-> recordEvent(
                   markDirty([p EXCEPT !.status = ProductStatusInactive,
                                       !.updatedAt = now], FieldStatus),
                   NewProductDeactivatedEvent(p.id, wall)),
          err |-> NoErr]

Deactivate(p, now, wall) ==
    IF p.status = ProductStatusArchived THEN [p |-> p, err |-> ErrProductIsArchived]
    ELSE IF p.status = ProductStatusInactive THEN [p |-> p, err |-> NoErr]
    ELSE [p |-> recordEvent(
                   markDirty([p EXCEPT !.status = ProductStatusInactive,
                                       !.updatedAt = now], FieldStatus),
                   NewProductDeactivatedEvent(p.id, wall)),
          err |-> NoErr]

ApplyDiscountUnlessInactive(p, discount, now, wall) ==
    IF p.status = ProductStatusInactive THEN [p |-> p, err |-> ErrProductNotActive]
    ELSE IF ~IsValidAt(discount, now) THEN [p |-> p, err |-> ErrInvalidDiscountPeriod]
    ELSE [p |-> recordEvent(
                   markDirty(markDirty([p EXCEPT !.discount = discount,
                                                 !.updatedAt = now],
                                       FieldDiscount), FieldStatus),
                   NewDiscountAppliedEvent(p.id, Percentage(discount),
                       Unix(StartDate(discount)), Unix(EndDate(discount)), wall)),
          err |-> NoErr]

ApplyDiscount(p, discount, now, wall) ==
    IF p.status # ProductStatusActive THEN [p |-> p, err |-> ErrProductNotActive]
    ELSE IF ~IsValidAt(discount, now) THEN [p |-> p, err |-> ErrInvalidDiscountPeriod]
    ELSE [p |-> recordEvent(
                   markDirty(markDirty([p EXCEPT !.discount = discount,
                                                 !.updatedAt = now],
                                       FieldDiscount), FieldStatus),
                   NewDiscountAppliedEvent(p.id, Percentage(discount),
                       Unix(StartDate(discount)), Unix(EndDate(discount)), wall)),
          err |-> NoErr]

\* a RemoveDiscount that is open to active products only
RemoveDiscountActiveOnly(p, now, wall) ==
    IF p.status = ProductStatusArchived THEN [p |-> p, err |-> ErrProductIsArchived]
    ELSE IF IsNil(p.discount) \/ p.status # ProductStatusActive
    THEN [p |-> p, err |-> ErrNoActiveDiscount]
    ELSE [p |-> recordEvent(
                   markDirty(markDirty([p EXCEPT !.discount = Nil,
                                                 !.updatedAt = now],
                                       FieldDiscount), FieldStatus),
                   NewDiscountRemovedEvent(p.id, wall)),
          err |-> NoErr]

\* a RemoveDiscount that records the removal and keeps the discount
RemoveDiscountKeepsDiscount(p, now, wall) ==
    IF p.status = ProductStatusArchived THEN [p |-> p, err |-> ErrProductIsArchived]
    ELSE IF IsNil(p.discount) THEN [p |-> p, err |-> ErrNoActiveDiscount]
    ELSE [p |-> recordEvent(
                   markDirty(markDirty([p EXCEPT !.updatedAt = now],
                                       FieldDiscount), FieldStatus),
                   NewDiscountRemovedEvent(p.id, wall)),
          err |-> NoErr]

RemoveDiscount(p, now, wall) ==
    IF p.status = ProductStatusArchived THEN [p |-> p, err |-> ErrProductIsArchived]
    ELSE IF IsNil(p.discount) THEN [p |-> p, err |-> ErrNoActiveDiscount]
    ELSE [p |-> recordEvent(
                   markDirty(markDirty([p EXCEPT !.discount = Nil,
                                                 !.updatedAt = now],
                                       FieldDiscount), FieldStatus),
                   NewDiscountRemovedEvent(p.id, wall)),
          err |-> NoErr]

\* an effective price that ignores the start of the discount window
EffectivePriceOpenStart(p, now) ==
    IF IsNil(p.discount) \/ now > EndDate(p.discount)
    THEN [p |-> p, m |-> p.basePrice, err |-> NoErr]
    ELSE LET res == ApplyPercentage(p.basePrice, Percentage(p.discount))
         IN  [p |-> p, m |-> res.m, err |-> res.err]

EffectivePrice(p, now) ==
    IF IsNil(p.discount) \/ ~IsActiveAt(p.discount, now)
    THEN [p |-> p, m |-> p.basePrice, err |-> NoErr]
    ELSE LET res == ApplyPercentage(p.basePrice, Percentage(p.discount))
         IN  [p |-> p, m |-> res.m, err |-> res.err]

\* an Archive that calls IncrementVersion when it archives
ArchiveBumpsVersion(p, now, wall) ==
    IF p.status = ProductStatusArchived THEN [p |-> p, err |-> NoErr]
    ELSE [p |-> recordEvent(
                   markDirty(markDirty([p EXCEPT !.status = ProductStatusArchived,
                                                 !.updatedAt = now,
                                                 !.archivedAt = Some(now),
                                                 !.version = @ + 1],
                                       FieldStatus), FieldArchivedAt),
                   NewProductArchivedEvent(p.id, wall)),
          err |-> NoErr]

\* an Archive that stamps archivedAt again on an archived product
ArchiveRestamps(p, now, wall) ==
    IF p.status = ProductStatusArchived
    THEN [p |-> [p EXCEPT !.archivedAt = Some(now)], err |-> NoErr]
    ELSE [p |-> recordEvent(
                   markDirty(markDirty([p EXCEPT !.status = ProductStatusArchived,
                                                 !.updatedAt = now,
                                                 !.archivedAt = Some(now)],
                                       FieldStatus), FieldArchivedAt),
                   NewProductArchivedEvent(p.id, wall)),
          err |-> NoErr]

Archive(p, now, wall) ==
    IF p.status = ProductStatusArchived THEN [p |-> p, err |-> NoErr]
    ELSE [p |-> recordEvent(
                   markDirty(markDirty([p EXCEPT !.status = ProductStatusArchived,
                                                 !.updatedAt = now,
                                                 !.archivedAt = Some(now)],
                                       FieldStatus), FieldArchivedAt),
                   NewProductArchivedEvent(p.id, wall)),
          err |-> NoErr]


----------------------------------------------------------------------------
(* Rows of the products table (m_product.Product) and their mapping to the *)
(* aggregate                                                               *)

Row(id, name, description, category, num, den, pct, startD, endD, status, createdAt, updatedAt, archivedAt) ==
    [product_id |-> id, name |-> name, description |-> description,
     category |-> category, base_price_numerator |-> num,
     base_price_denominator |-> den, discount_percent |-> pct,
     discount_start_date |-> startD, discount_end_date |-> endD,
     status |-> status, created_at |-> createdAt, updated_at |-> updatedAt,
     archived_at |-> archivedAt]

modelToDomain(r) ==
    LET hasDiscount == ~IsNil(r.discount_percent)
        discountPercent == IF hasDiscount THEN Val(r.discount_percent) ELSE 0
        discountStart == IF hasDiscount /\ ~IsNil(r.discount_start_date)
                         THEN Val(r.discount_start_date) ELSE ZeroTime
        discountEnd == IF hasDiscount /\ ~IsNil(r.discount_end_date)
                       THEN Val(r.discount_end_date) ELSE ZeroTime
    IN  ReconstructProduct(r.product_id, r.name, r.description, r.category,
            r.base_price_numerator, r.base_price_denominator,
            discountPercent, discountStart, discountEnd, r.status,
            r.created_at, r.updated_at, r.archived_at, 0)

----------------------------------------------------------------------------
(* Errors as returned by Execute: the error value and the contexts wrapped *)
(* around it with fmt.Errorf("...: %w", err), outermost first              *)

Error(base) == [base |-> base, wraps |-> <<>>]
NoError == Error(NoErr)
Wrap(context, err) == [err EXCEPT !.wraps = <<context>> \o @]
\* any failure reported by the spanner client (unreachable backend, rejected write)
SpannerError == Error("spanner error")

----------------------------------------------------------------------------
(* Mutations and the commit plan (plan.go) *)

ProductsTable == "products"
OutboxTable == "outbox_events"
KeyColumn(table) == IF table = ProductsTable THEN "product_id" ELSE "event_id"

EmptyMap == [c \in {} |-> Nil]

\* spanner.InsertOrUpdateMap(table, cols)
InsertOrUpdateMap(table, cols) ==
    [op |-> "insert_or_update", table |-> table, cols |-> cols]

\* spanner.UpdateMap(table, cols)
UpdateMap(table, cols) == [op |-> "update", table |-> table, cols |-> cols]

NewPlan == <<>>
PlanAddAll(plan, mut) == Append(plan, mut)
PlanAdd(plan, mut) == IF ~IsNil(mut) THEN Append(plan, Val(mut)) ELSE plan
Mutations(plan) == plan
Size(plan) == Len(plan)

----------------------------------------------------------------------------
(* The database: the products table keyed by product_id and the            *)
(* outbox_events table keyed by event_id, rows kept in commit order        *)

OutboxIndex(rows, eventID) == {i \in 1 .. Len(rows) : rows[i].event_id = eventID}

\* the effect of one write of a read-write transaction
applyMutation(db, m) ==
    IF m.table = ProductsTable
    THEN LET k == m.cols.product_id
         IN  IF k \in DOMAIN db.products
             THEN [db EXCEPT !.products[k] = m.cols @@ @]
             ELSE [db EXCEPT !.products = (k :> m.cols) @@ @]
    ELSE LET at == OutboxIndex(db.outbox, m.cols.event_id)
         IN  IF at = {}
             THEN [db EXCEPT !.outbox = Append(@, m.cols)]
             ELSE [db EXCEPT !.outbox[CHOOSE i \in at : TRUE] = m.cols @@ @]

\* a write the backend accepts: it names the row by its primary key, and an
\* update finds that row
acceptsMutation(db, m) ==
    /\ KeyColumn(m.table) \in DOMAIN m.cols
    /\ m.op = "update" =>
          /\ m.table = ProductsTable
          /\ m.cols.product_id \in DOMAIN db.products

RECURSIVE writeAll(_, _)
writeAll(db, muts) ==
    IF muts = <<>> THEN [ok |-> TRUE, db |-> db]
    ELSE IF ~acceptsMutation(db, Head(muts)) THEN [ok |-> FALSE, db |-> db]
    ELSE writeAll(applyMutation(db, Head(muts)), Tail(muts))

\* the database after each prefix of the writes the backend accepts
RECURSIVE writePrefixes(_, _)
writePrefixes(db, muts) ==
    IF muts = <<>> \/ ~acceptsMutation(db, Head(muts)) THEN {db}
    ELSE {db} \cup writePrefixes(applyMutation(db, Head(muts)), Tail(muts))

\* a client that can report a failure for a transaction it has committed
clientApplyLosesAck(db, muts) ==
    LET all == writeAll(db, muts)
    IN  {[db |-> db, err |-> SpannerError]}
            \cup (IF all.ok
                  THEN {[db |-> all.db, err |-> NoError],
                        [db |-> all.db, err |-> SpannerError]}
                  ELSE {})

\* spanner.Client.Apply(ctx, mutations): one read-write transaction; it
\* commits every write or, on any failure, none
clientApply(db, muts) ==
    LET all == writeAll(db, muts)
    IN  {[db |-> db, err |-> SpannerError]}
            \cup (IF all.ok THEN {[db |-> all.db, err |-> NoError]} ELSE {})

\* a committer that sends the mutations one transaction each
ApplyOneByOne(db, plan) ==
    LET all == writeAll(db, plan)
    IN  {[db |-> d, err |-> Wrap("failed to apply commit plan", SpannerError),
          contacted |-> TRUE] : d \in writePrefixes(db, plan) \ {all.db}}
            \cup (IF all.ok
                  THEN {[db |-> all.db, err |-> NoError, contacted |-> TRUE]}
                  ELSE {[db |-> all.db,
                         err |-> Wrap("failed to apply commit plan", SpannerError),
                         contacted |-> TRUE]})

\* a committer that hands an empty plan to the client as well
ApplyEmptyPlanToo(db, plan) ==
    {[db |-> o.db,
      err |-> IF o.err # NoError
              THEN Wrap("failed to apply commit plan", o.err)
              ELSE NoError,
      contacted |-> TRUE] : o \in clientApply(db, Mutations(plan))}

\* Committer.Apply(ctx, plan): the possible outcomes
Apply(db, plan) ==
    IF Len(Mutations(plan)) = 0
    THEN {[db |-> db, err |-> NoError, contacted |-> FALSE]}
    ELSE {[db |-> o.db,
           err |-> IF o.err # NoError
                   THEN Wrap("failed to apply commit plan", o.err)
                   ELSE NoError,
           contacted |-> TRUE] : o \in clientApply(db, Mutations(plan))}

----------------------------------------------------------------------------
(* Repositories (ProductRepo, OutboxRepo) *)

OptCol(present, v) == IF present THEN Some(v) ELSE Nil

domainToModel(p) ==
    Row(p.id, p.name, p.description, p.category,
        Numerator(p.basePrice), Denominator(p.basePrice),
        OptCol(~IsNil(p.discount), Percentage(p.discount)),
        OptCol(~IsNil(p.discount), StartDate(p.discount)),
        OptCol(~IsNil(p.discount), EndDate(p.discount)),
        p.status, p.createdAt, p.updatedAt, p.archivedAt)

\* ProductRepo.InsertMut
InsertMut(p) == Some(InsertOrUpdateMap(ProductsTable, domainToModel(p)))

\* one "if product.Changes().Dirty(field) { updates[...] = ... }" block
dirtyCols(p, field, cols) == IF Dirty(p.changes, field) THEN cols ELSE EmptyMap

\* an UpdateMut that writes every column of the row once anything is dirty
UpdateMutWholeRow(p, wall) ==
    IF ~HasChanges(p.changes) THEN Nil
    ELSE LET row == domainToModel(p)
         IN  Some(UpdateMap(ProductsTable,
                 [c \in DOMAIN row \ {"product_id", "created_at"} |->
                     IF c = "updated_at" THEN wall ELSE row[c]]))

\* an UpdateMut that names the row it updates by the product's id
UpdateMutKeyed(p, wall) ==
    LET updates ==
            dirtyCols(p, FieldName, [name |-> p.name])
            @@ dirtyCols(p, FieldDescription, [description |-> p.description])
            @@ dirtyCols(p, FieldCategory, [category |-> p.category])
            @@ dirtyCols(p, FieldBasePrice,
                   [base_price_numerator |-> Numerator(p.basePrice),
                    base_price_denominator |-> Denominator(p.basePrice)])
            @@ dirtyCols(p, FieldDiscount,
                   [discount_percent |-> OptCol(~IsNil(p.discount), Percentage(p.discount)),
                    discount_start_date |-> OptCol(~IsNil(p.discount), StartDate(p.discount)),
                    discount_end_date |-> OptCol(~IsNil(p.discount), EndDate(p.discount))])
            @@ (IF Dirty(p.changes, FieldStatus) \/ HasChanges(p.changes)
                THEN [status |-> p.status, updated_at |-> wall]
                ELSE EmptyMap)
            @@ dirtyCols(p, FieldArchivedAt, [archived_at |-> p.archivedAt])
    IN  IF DOMAIN updates = {} THEN Nil
        ELSE Some(UpdateMap(ProductsTable, [product_id |-> p.id] @@ updates))

\* an UpdateMut that sets status and updated_at whether or not a field is dirty
UpdateMutAlwaysStamps(p, wall) ==
    LET updates ==
            dirtyCols(p, FieldName, [name |-> p.name])
            @@ dirtyCols(p, FieldDescription, [description |-> p.description])
            @@ dirtyCols(p, FieldCategory, [category |-> p.category])
            @@ dirtyCols(p, FieldBasePrice,
                   [base_price_numerator |-> Numerator(p.basePrice),
                    base_price_denominator |-> Denominator(p.basePrice)])
            @@ dirtyCols(p, FieldDiscount,
                   [discount_percent |-> OptCol(~IsNil(p.discount), Percentage(p.discount)),
                    discount_start_date |-> OptCol(~IsNil(p.discount), StartDate(p.discount)),
                    discount_end_date |-> OptCol(~IsNil(p.discount), EndDate(p.discount))])
            @@ [status |-> p.status, updated_at |-> wall]
            @@ dirtyCols(p, FieldArchivedAt, [archived_at |-> p.archivedAt])
    IN  IF DOMAIN updates = {} THEN Nil
        ELSE Some(UpdateMap(ProductsTable, updates))

\* ProductRepo.UpdateMut; updated_at is time.Now()
UpdateMut(p, wall) ==
    LET updates ==
            dirtyCols(p, FieldName, [name |-> p.name])
            @@ dirtyCols(p, FieldDescription, [description |-> p.description])
            @@ dirtyCols(p, FieldCategory, [category |-> p.category])
            @@ dirtyCols(p, FieldBasePrice,
                   [base_price_numerator |-> Numerator(p.basePrice),
                    base_price_denominator |-> Denominator(p.basePrice)])
            @@ dirtyCols(p, FieldDiscount,
                   [discount_percent |-> OptCol(~IsNil(p.discount), Percentage(p.discount)),
                    discount_start_date |-> OptCol(~IsNil(p.discount), StartDate(p.discount)),
                    discount_end_date |-> OptCol(~IsNil(p.discount), EndDate(p.discount))])
            @@ (IF Dirty(p.changes, FieldStatus) \/ HasChanges(p.changes)
                THEN [status |-> p.status, updated_at |-> wall]
                ELSE EmptyMap)
            @@ dirtyCols(p, FieldArchivedAt, [archived_at |-> p.archivedAt])
    IN  IF DOMAIN updates = {} THEN Nil
        ELSE Some(UpdateMap(ProductsTable, updates))

\* a FindByID that reads some row of the table, whatever the key asked for
FindByIDAnyRow(db, productID, readFails) ==
    IF readFails
    THEN [p |-> Nil, err |-> Wrap("failed to read product", SpannerError)]
    ELSE IF productID \notin DOMAIN db.products
    THEN [p |-> Nil, err |-> Error(ErrProductNotFound)]
    ELSE LET res == modelToDomain(db.products[CHOOSE k \in DOMAIN db.products : TRUE])
         IN  [p |-> res.p, err |-> Error(res.err)]

\* ProductRepo.FindByID; readFails is a failure of the read itself
FindByID(db, productID, readFails) ==
    IF readFails
    THEN [p |-> Nil, err |-> Wrap("failed to read product", SpannerError)]
    ELSE IF productID \notin DOMAIN db.products
    THEN [p |-> Nil, err |-> Error(ErrProductNotFound)]
    ELSE LET res == modelToDomain(db.products[productID])
         IN  [p |-> res.p, err |-> Error(res.err)]

\* json.Marshal of a payload map
Marshal(payload) ==
    IF IsNil(payload) THEN <<"null">> ELSE <<"object", Val(payload)>>

\* OutboxRepo.InsertMut; marshalFails is json.Marshal returning an error
OutboxInsertMut(event, marshalFails, wall) ==
    IF marshalFails THEN Nil
    ELSE Some(InsertOrUpdateMap(OutboxTable,
                 [event_id |-> event.EventID, event_type |-> event.EventType,
                  aggregate_id |-> event.AggregateID,
                  payload |-> Marshal(event.Payload),
                  status |-> "pending", created_at |-> wall,
                  processed_at |-> Nil]))

----------------------------------------------------------------------------
(* Read model (ProductReadModel) and the queries that front it *)

ProductDTO(row, effectiveNum, effectiveDenom, hasDiscount) ==
    [Name |-> row.name, Category |-> row.category,
     BasePriceNumerator |-> row.base_price_numerator,
     BasePriceDenominator |-> row.base_price_denominator,
     DiscountPercent |-> IF hasDiscount THEN row.discount_percent ELSE Nil,
     ProductID |-> row.product_id, Description |-> row.description,
     EffectivePriceNumerator |-> effectiveNum,
     EffectivePriceDenominator |-> effectiveDenom,
     HasDiscount |-> hasDiscount,
     DiscountStartDate |->
         IF hasDiscount THEN Some(Unix(Val(row.discount_start_date))) ELSE Nil,
     DiscountEndDate |->
         IF hasDiscount THEN Some(Unix(Val(row.discount_end_date))) ELSE Nil,
     Status |-> row.status, CreatedAtSec |-> Unix(row.created_at),
     UpdatedAtSec |-> Unix(row.updated_at)]

\* the int64 that Go keeps of an integer result: the low Int64Bits bits, read
\* as two's complement
Int64(x) == ((x + MaxInt64 + 1) % (2 * (MaxInt64 + 1))) - (MaxInt64 + 1)

\* "Calculate effective price if discount is active": the DTO of one row at
\* the instant now read from time.Now()
rowToDTO(row, now) ==
    IF /\ ~IsNil(row.discount_percent)
       /\ ~IsNil(row.discount_start_date)
       /\ ~IsNil(row.discount_end_date)
       /\ now >= Val(row.discount_start_date)
       /\ now <= Val(row.discount_end_date)
    THEN LET discountFactor == Int64(100 - Val(row.discount_percent))
         IN  ProductDTO(row, Int64(row.base_price_numerator * discountFactor),
                        Int64(row.base_price_denominator * 100), TRUE)
    ELSE ProductDTO(row, row.base_price_numerator, row.base_price_denominator, FALSE)

\* ProductReadModel.GetProduct behind get_product.Query.Execute
GetProduct(db, productID, now, readFails) ==
    IF readFails
    THEN [err |-> Wrap("failed to read product", SpannerError), dto |-> Nil]
    ELSE IF productID \notin DOMAIN db.products
    THEN [err |-> Error("product not found: " \o productID), dto |-> Nil]
    ELSE [err |-> NoError, dto |-> Some(rowToDTO(db.products[productID], now))]

\* base64.StdEncoding.EncodeToString([]byte(productID))
encodePageToken(productID) == "base64(" \o productID \o ")"

ListProductsFilter(category, pageSize, pageToken, status) ==
    [Category |-> category, Status |-> status, PageSize |-> pageSize,
     PageToken |-> pageToken]

\* product ids in the order of ORDER BY product_id
KeyOrder == [i \in 1 .. MaxStored |-> "p" \o ToString(i)]

\* iterator.Done, the error with which RowIterator.Next ends
IteratorDone == Error("no more items in iterator")

\* the grpc codes spanner.ErrCode can report for the error with which the
\* row iterator ends
DoneCodes == {"NotFound", "Unknown"}

\* the WHERE clause; @status and @category are bound to Go strings, which
\* are STRING values and never NULL
matchesFilter(row, filter) ==
    LET statusIsNull == FALSE
        categoryIsNull == FALSE
    IN  \/ statusIsNull
        \/ /\ row.status = filter.Status
           /\ (categoryIsNull \/ row.category = filter.Category)

\* ProductReadModel.ListProducts behind list_products.Query.Execute
ListProducts(db, filter, now, doneCode) ==
    LET pageSize == IF filter.PageSize <= 0 \/ filter.PageSize > 1000
                    THEN 50 ELSE filter.PageSize
        keys == SelectSeq(KeyOrder,
                    LAMBDA k : /\ k \in DOMAIN db.products
                               /\ matchesFilter(db.products[k], filter))
        limit == pageSize + 1
        fetched == SubSeq(keys, 1, IF Len(keys) < limit THEN Len(keys) ELSE limit)
        products == [i \in 1 .. Len(fetched) |-> rowToDTO(db.products[fetched[i]], now)]
    IN  IF doneCode # "NotFound"
        THEN [err |-> Wrap("failed to iterate products", IteratorDone),
              Products |-> <<>>, NextPageToken |-> ""]
        ELSE IF Len(products) > pageSize
        THEN [err |-> NoError, Products |-> SubSeq(products, 1, pageSize),
              NextPageToken |-> encodePageToken(products[pageSize].ProductID)]
        ELSE [err |-> NoError, Products |-> products, NextPageToken |-> ""]

----------------------------------------------------------------------------
(* Event enrichment *)

KnownEventTypes ==
    {"product.created", "product.updated", "product.activated",
     "product.deactivated", "product.archived", "discount.applied",
     "discount.removed"}

\* services.EventEnricher.EnrichEvent
EnrichEvent(ev, eventID) ==
    IF EventType(ev) \notin KnownEventTypes
    THEN [EventID |-> "", EventType |-> "", AggregateID |-> "", Payload |-> Nil]
    ELSE [EventID |-> eventID, EventType |-> ev.base.eventType,
          AggregateID |-> ev.base.aggregateID,
          Payload |-> Some([aggregate_id |-> ev.base.aggregateID,
                            event_type |-> ev.base.eventType,
                            occurred_at |-> Unix(ev.base.occurredAt)])]

\* create_product.Interactor.enrichEvent
enrichEvent(ev, eventID) ==
    LET common == [aggregate_id |-> ev.base.aggregateID,
                   event_type |-> ev.base.eventType,
                   occurred_at |-> Unix(ev.base.occurredAt)]
        specific ==
            IF EventType(ev) = "product.created"
            THEN [name |-> ev.data.Name, category |-> ev.data.Category,
                  base_price_numerator |-> ev.data.BasePriceNumerator,
                  base_price_denominator |-> ev.data.BasePriceDenominator]
            ELSE IF EventType(ev) = "discount.applied"
            THEN [discount_percent |-> ev.data.DiscountPercent,
                  start_date |-> ev.data.StartDate, end_date |-> ev.data.EndDate]
            ELSE EmptyMap
    IN  [EventID |-> eventID, EventType |-> ev.base.eventType,
         AggregateID |-> ev.base.aggregateID, Payload |-> Some(common @@ specific)]

----------------------------------------------------------------------------
(* Inputs *)

\* (name, description, category) arguments of UpdateDetails: nothing changed,
\* each field changed alone, all changed, and the two empty-string rejections
DetailInputs ==
    {<<"n1", "d1", "c1">>, <<"n2", "d1", "c1">>, <<"n1", "d2", "c1">>,
     <<"n1", "d1", "c2">>, <<"n2", "d2", "c2">>,
     <<"", "d1", "c1">>, <<"n1", "d1", "">>}
Percents == {20}
Statuses == {ProductStatusActive, ProductStatusInactive, ProductStatusArchived}

\* window bounds of the discounts tried: the first and the last instant
WindowEdges == {0, MaxTime}

\* every Discount the factory hands out for these percentages and window bounds
DiscountInputs ==
    {NewDiscount(pct, s, e).d : pct \in Percents, s \in WindowEdges, e \in WindowEdges}
        \ {Nil}

\* rows a products table can hold when an execution starts: any status, with
\* or without a discount, archived_at set exactly on archived rows
StoredRows ==
    {Row("p1", "n1", "d1", "c1", 1999, 100,
         IF IsNil(d) THEN Nil ELSE Some(Percentage(d)),
         IF IsNil(d) THEN Nil ELSE Some(StartDate(d)),
         IF IsNil(d) THEN Nil ELSE Some(EndDate(d)),
         st, 0, 0,
         IF st = ProductStatusArchived THEN Some(0) ELSE Nil) :
        st \in Statuses,
        d \in {Nil} \cup {x \in DiscountInputs : StartDate(x) = 0 /\ EndDate(x) = MaxTime}}

----------------------------------------------------------------------------
(* Spec: one Product instance and the calls made on it *)

NoArgs == [name |-> "", description |-> "", category |-> "", discount |-> Nil]

Call(op, args, now, res, pre) ==
    [op |-> op, args |-> args, now |-> now, err |-> res.err, pre |-> pre,
     ret |-> IF "m" \in DOMAIN res THEN res.m ELSE Nil]

\* the use-case executions do not run under Spec
UseCasesIdle ==
    /\ store = <<>>
    /\ outbox = <<>>
    /\ execs = <<>>
    /\ uuid = 0

\* one value-object operation: its name, integer operands, the Money
\* receiver before and after, the Money argument, and what it returned
\* (Discount, Money, booleans, error); depth counts the operations the
\* returned Money went through since its factory
Calc(name, operands, receiver, receiverAfter, argument, discount, money, booleans, error, chain) ==
    [m |-> money, err |-> error, recv |-> receiver, other |-> argument,
     d |-> discount, op |-> name, ints |-> operands, after |-> receiverAfter,
     bools |-> booleans, depth |-> chain]

\* no value-object operation runs outside SpecValues
ValuesIdle == calc = Calc("none", <<>>, Nil, Nil, Nil, Nil, Nil, <<>>, NoErr, 0)

\* no plan is assembled step by step outside SpecPlan
PlanIdle == staged = <<>> /\ added = <<>>

\* no query is made outside SpecQuery
QueriesIdle == asked = <<>> /\ reply = <<>>

Init ==
    /\ \/ \E now \in Times, wall \in WallTimes :
            LET res == NewProduct("p1", "n1", "d1", "c1",
                                  NewMoney(1999, 100).m, now, wall)
            IN  /\ product = Val(res.p)
                /\ lastCall = Call("NewProduct", NoArgs, now, res, Nil)
       \/ \E r \in StoredRows :
            LET res == modelToDomain(r)
            IN  /\ product = Val(res.p)
                /\ lastCall = Call("ReconstructProduct", NoArgs, 0, res, Nil)
    /\ UseCasesIdle
    /\ ValuesIdle
    /\ PlanIdle
    /\ QueriesIdle

\* the events raised by business-method calls (all but the constructor's)
Raised(p) ==
    IF Len(p.events) > 0 /\ EventType(p.events[1]) = "product.created"
    THEN Len(p.events) - 1
    ELSE Len(p.events)

\* a call goes through when its event, if it raises one, is within the bound
Does(op, args, now, res) ==
    /\ Raised(res.p) <= MaxRaised
    /\ product' = res.p
    /\ lastCall' = Call(op, args, now, res, Some(product))
    /\ UNCHANGED <<ucVars, valVars, planVars, qryVars>>

CallUpdateDetails ==
    \E a \in DetailInputs, now \in Times, wall \in WallTimes :
        Does("UpdateDetails",
             [NoArgs EXCEPT !.name = a[1], !.description = a[2], !.category = a[3]],
             now, UpdateDetails(product, a[1], a[2], a[3], now, wall))

CallActivate ==
    \E now \in Times, wall \in WallTimes :
        Does("Activate", NoArgs, now, Activate(product, now, wall))

CallDeactivate ==
    \E now \in Times, wall \in WallTimes :
        Does("Deactivate", NoArgs, now, Deactivate(product, now, wall))

CallApplyDiscount ==
    \E d \in DiscountInputs, now \in Times, wall \in WallTimes :
        Does("ApplyDiscount", [NoArgs EXCEPT !.discount = d], now,
             ApplyDiscount(product, d, now, wall))

CallRemoveDiscount ==
    \E now \in Times, wall \in WallTimes :
        Does("RemoveDiscount", NoArgs, now, RemoveDiscount(product, now, wall))

CallArchive ==
    \E now \in Times, wall \in WallTimes :
        Does("Archive", NoArgs, now, Archive(product, now, wall))

Next ==
    \/ CallUpdateDetails
    \/ CallActivate
    \/ CallDeactivate
    \/ CallApplyDiscount
    \/ CallRemoveDiscount
    \/ CallArchive

Spec == Init /\ [][Next]_vars

----------------------------------------------------------------------------
(* SpecPricing: the discount lifecycle of one Product and the price reads  *)
(* made on it (PricingCalculator.CalculateEffectivePrice)                  *)

CallEffectivePrice ==
    \E now \in Times :
        Does("EffectivePrice", NoArgs, now, EffectivePrice(product, now))

NextPricing ==
    \/ CallApplyDiscount
    \/ CallRemoveDiscount
    \/ CallEffectivePrice

SpecPricing == Init /\ [][NextPricing]_vars

----------------------------------------------------------------------------
(* SpecValues: the value objects Money and Discount on their own.  A Money *)
(* operation takes the Money the previous operation returned as receiver.  *)

Parts == -MaxPart .. MaxPart
MoneyInputs == (Parts \X Parts) \cup {<<1999, 100>>}
PercentInputs == {-1, 0, 20, 50, 100, 101}

Evaluates(c) ==
    /\ calc' = c
    /\ UNCHANGED <<aggVars, ucVars, planVars, qryVars>>

EvalNewMoney ==
    \E q \in MoneyInputs :
        LET res == NewMoney(q[1], q[2])
        IN  Evaluates(Calc("NewMoney", <<q[1], q[2]>>, Nil, Nil, Nil, Nil,
                           res.m, <<>>, res.err, 0))

EvalApplyPercentage ==
    \E percentage \in PercentInputs :
        /\ ~IsNil(calc.m)
        /\ calc.depth < MaxChain
        /\ LET res == ApplyPercentage(calc.m, percentage)
           IN  Evaluates(Calc("ApplyPercentage", <<percentage>>, calc.m, res.recv,
                              Nil, Nil, res.m, <<>>, res.err, calc.depth + 1))

EvalAdd ==
    \E q \in MoneyInputs :
        /\ ~IsNil(calc.m)
        /\ calc.depth < MaxChain
        /\ NewMoney(q[1], q[2]).err = NoErr
        /\ LET other == NewMoney(q[1], q[2]).m
               res == Add(calc.m, other)
           IN  Evaluates(Calc("Add", <<q[1], q[2]>>, calc.m, res.recv, other,
                              Nil, res.m, <<>>, res.err, calc.depth + 1))

\* Equals and GreaterThan on two Money values fresh from the factory
EvalCompare ==
    \E q \in MoneyInputs, r \in MoneyInputs :
        /\ NewMoney(q[1], q[2]).err = NoErr
        /\ NewMoney(r[1], r[2]).err = NoErr
        /\ LET m == NewMoney(q[1], q[2]).m
               other == NewMoney(r[1], r[2]).m
           IN  Evaluates(Calc("Compare", <<q[1], q[2], r[1], r[2]>>, m, m, other,
                              Nil, Nil,
                              <<Equals(m, other), GreaterThan(m, other)>>,
                              NoErr, 0))

EvalNewDiscount ==
    \E percentage \in PercentInputs, startDate \in Times, endDate \in Times :
        LET res == NewDiscount(percentage, startDate, endDate)
        IN  Evaluates(Calc("NewDiscount", <<percentage, startDate, endDate>>,
                           Nil, Nil, Nil, res.d, Nil, <<>>, res.err, 0))

InitValues ==
    /\ product = Val(modelToDomain(CHOOSE r \in StoredRows : TRUE).p)
    /\ lastCall = Call("ReconstructProduct", NoArgs, 0, [err |-> NoErr], Nil)
    /\ UseCasesIdle
    /\ ValuesIdle
    /\ PlanIdle
    /\ QueriesIdle

NextValues ==
    \/ EvalNewMoney
    \/ EvalApplyPercentage
    \/ EvalAdd
    \/ EvalCompare
    \/ EvalNewDiscount

SpecValues == InitValues /\ [][NextValues]_vars

----------------------------------------------------------------------------
(* SpecUseCase: interactor executions against the two tables.  An          *)
(* execution takes one step from the request to the assembled plan (it     *)
(* reads the products table once, in FindByID) and a second step for       *)
(* Committer.Apply; executions interleave between the two.                 *)

DB == [products |-> store, outbox |-> outbox]

\* uuid.New().String() for the n-th value handed out
NewUUID(n) == "u" \o ToString(n)

Request(productID, name, description, category, numerator, denominator, percent, startSec, endSec) ==
    [ProductID |-> productID, Name |-> name, Description |-> description,
     Category |-> category, BasePriceNumerator |-> numerator,
     BasePriceDenominator |-> denominator, DiscountPercent |-> percent,
     DiscountStartSec |-> startSec, DiscountEndSec |-> endSec]

\* what the environment decides during one execution: the two clocks, whether
\* the read fails, whether json.Marshal fails, and the uuid counter
Env(now, wall, readFails, marshalFails, ids) ==
    [now |-> now, wall |-> wall, readFails |-> readFails,
     marshalFails |-> marshalFails, ids |-> ids]

\* "return nil, err" before any plan exists
abortWrapped(uc, productID, stage, err, ids) ==
    [uc |-> uc, productID |-> productID, pc |-> "done", stage |-> stage,
     cause |-> err, err |-> Wrap("use case failed", err), planBuilt |-> FALSE,
     plan |-> NewPlan, applyCalls |-> 0, events |-> <<>>, eventIDs |-> <<>>,
     ids |-> ids]

abort(uc, productID, stage, err, ids) ==
    [uc |-> uc, productID |-> productID, pc |-> "done", stage |-> stage,
     cause |-> err, err |-> err, planBuilt |-> FALSE,
     plan |-> NewPlan, applyCalls |-> 0, events |-> <<>>, eventIDs |-> <<>>,
     ids |-> ids]

\* "for _, event := range product.DomainEvents()": enrich, build the outbox
\* mutation, add it unless it is nil
RECURSIVE addOutboxEvents(_, _, _, _, _)
addOutboxEvents(uc, acc, events, i, env) ==
    IF i > Len(events) THEN acc
    ELSE LET eventID == NewUUID(acc.ids + 1)
             outboxEvent == IF uc = "create_product"
                            THEN enrichEvent(events[i], eventID)
                            ELSE EnrichEvent(events[i], eventID)
             outboxMut == OutboxInsertMut(outboxEvent, env.marshalFails, env.wall)
         IN  addOutboxEvents(uc,
                 [plan |-> PlanAdd(acc.plan, outboxMut),
                  eventIDs |-> Append(acc.eventIDs, eventID),
                  ids |-> acc.ids + 1],
                 events, i + 1, env)

\* from "Build commit plan" to the call of Committer.Apply
buildPlan(uc, p, mut, env, ids) ==
    LET acc == addOutboxEvents(uc,
                   [plan |-> PlanAdd(NewPlan, mut), eventIDs |-> <<>>, ids |-> ids],
                   p.events, 1, env)
    IN  [uc |-> uc, productID |-> p.id, pc |-> "apply", stage |-> "",
         cause |-> NoError, err |-> NoError, planBuilt |-> TRUE,
         plan |-> acc.plan, applyCalls |-> 0, events |-> p.events,
         eventIDs |-> acc.eventIDs, ids |-> acc.ids]

\* an interactor that stages the outbox events and no product mutation
afterLoadEventsOnly(uc, req, found, call, env) ==
    IF call.err # NoErr
    THEN abort(uc, req.ProductID, "domain", Error(call.err), env.ids)
    ELSE buildPlan(uc, call.p, Nil, env, env.ids)

\* the load / domain call / plan skeleton the four interactors share; call is
\* the result of the business method on the loaded product
afterLoad(uc, req, found, call, env) ==
    IF call.err # NoErr
    THEN abort(uc, req.ProductID, "domain", Error(call.err), env.ids)
    ELSE buildPlan(uc, call.p, UpdateMut(call.p, env.wall), env, env.ids)

CreateProductExecute(req, env) ==
    IF req.Name = ""
    THEN abort("create_product", "", "validate", Error(ErrInvalidName), env.ids)
    ELSE IF req.Category = ""
    THEN abort("create_product", "", "validate", Error(ErrInvalidCategory), env.ids)
    ELSE LET basePrice == NewMoney(req.BasePriceNumerator, req.BasePriceDenominator)
             productID == NewUUID(env.ids + 1)
             res == NewProduct(productID, req.Name, req.Description, req.Category,
                               basePrice.m, env.now, env.wall)
         IN  IF basePrice.err # NoErr
             THEN abort("create_product", "", "validate", Error(basePrice.err), env.ids)
             ELSE IF res.err # NoErr
             THEN abort("create_product", productID, "domain", Error(res.err), env.ids + 1)
             ELSE buildPlan("create_product", Val(res.p), InsertMut(Val(res.p)),
                            env, env.ids + 1)

UpdateProductExecute(db, req, env) ==
    LET found == FindByID(db, req.ProductID, env.readFails)
    IN  IF found.err # NoError
        THEN abort("update_product", req.ProductID, "load", found.err, env.ids)
        ELSE afterLoad("update_product", req, found,
                 UpdateDetails(Val(found.p), req.Name, req.Description,
                               req.Category, env.now, env.wall), env)

ApplyDiscountExecute(db, req, env) ==
    LET found == FindByID(db, req.ProductID, env.readFails)
        discount == NewDiscount(req.DiscountPercent, FromUnix(req.DiscountStartSec),
                                FromUnix(req.DiscountEndSec))
    IN  IF found.err # NoError
        THEN abort("apply_discount", req.ProductID, "load", found.err, env.ids)
        ELSE IF discount.err # NoErr
        THEN abort("apply_discount", req.ProductID, "value", Error(discount.err), env.ids)
        ELSE afterLoad("apply_discount", req, found,
                 ApplyDiscount(Val(found.p), discount.d, env.now, env.wall), env)

RemoveDiscountExecute(db, req, env) ==
    LET found == FindByID(db, req.ProductID, env.readFails)
    IN  IF found.err # NoError
        THEN abort("remove_discount", req.ProductID, "load", found.err, env.ids)
        ELSE afterLoad("remove_discount", req, found,
                 RemoveDiscount(Val(found.p), env.now, env.wall), env)

ArchiveProductExecute(db, req, env) ==
    LET found == FindByID(db, req.ProductID, env.readFails)
    IN  IF found.err # NoError
        THEN abort("archive_product", req.ProductID, "load", found.err, env.ids)
        ELSE afterLoad("archive_product", req, found,
                 Archive(Val(found.p), env.now, env.wall), env)

\* the requests tried
ProductIDs == DOMAIN store \cup {"missing"}
Seconds == {0, Unix(MaxTime)}
CreateRequests ==
    {Request("", "n1", "d1", "c1", 1999, 100, 0, 0, 0),
     Request("", "", "d1", "c1", 1999, 100, 0, 0, 0),
     Request("", "n1", "d1", "c1", 1999, 0, 0, 0, 0)}
UpdateRequests ==
    {Request(id, a[1], a[2], a[3], 0, 0, 0, 0, 0) :
        id \in ProductIDs,
        a \in {<<"n1", "d1", "c1">>, <<"n2", "d1", "c1">>, <<"", "d1", "c1">>}}
ApplyDiscountRequests ==
    {Request(id, "", "", "", 0, 0, w[1], w[2], w[3]) :
        id \in ProductIDs,
        w \in {<<20, 0, Unix(MaxTime)>>, <<20, 0, 0>>, <<101, 0, Unix(MaxTime)>>}}
IDRequests == {Request(id, "", "", "", 0, 0, 0, 0, 0) : id \in ProductIDs}

\* the product a seeded database holds: active with or without a discount,
\* inactive, or archived
SeededRows ==
    {r \in StoredRows :
        IsNil(r.discount_percent) \/ r.status = ProductStatusActive}

\* the clock reads the first or the last instant
Envs ==
    {Env(now, wall, readFails, marshalFails, uuid) :
        now \in WindowEdges, wall \in WallTimes,
        readFails \in BOOLEAN, marshalFails \in BOOLEAN}

\* an execution reaches either its early return or the call of Committer.Apply
Runs(exec) ==
    /\ Len(execs) < MaxRuns
    /\ execs' = Append(execs, [f \in DOMAIN exec \ {"ids"} |-> exec[f]])
    /\ uuid' = exec.ids
    /\ UNCHANGED <<store, outbox, aggVars, valVars, planVars>>

Starts(exec) ==
    /\ Runs(exec)
    /\ UNCHANGED qryVars

StartCreateProduct ==
    \E req \in CreateRequests, env \in Envs :
        /\ ~env.readFails
        /\ Starts(CreateProductExecute(req, env))

StartUpdateProduct ==
    \E req \in UpdateRequests, env \in Envs :
        Starts(UpdateProductExecute(DB, req, env))

StartApplyDiscount ==
    \E req \in ApplyDiscountRequests, env \in Envs :
        Starts(ApplyDiscountExecute(DB, req, env))

StartRemoveDiscount ==
    \E req \in IDRequests, env \in Envs :
        Starts(RemoveDiscountExecute(DB, req, env))

StartArchiveProduct ==
    \E req \in IDRequests, env \in Envs :
        Starts(ArchiveProductExecute(DB, req, env))

\* "if err := it.committer.Apply(ctx, plan); err != nil { return nil,
\* fmt.Errorf(...) }; return &Response{}, nil"
Commit ==
    \E i \in 1 .. Len(execs) :
        /\ execs[i].pc = "apply"
        /\ \E o \in Apply(DB, execs[i].plan) :
              /\ store' = o.db.products
              /\ outbox' = o.db.outbox
              /\ execs' = [execs EXCEPT
                    ![i].pc = "done",
                    ![i].applyCalls = @ + 1,
                    ![i].stage = IF o.err # NoError THEN "commit" ELSE "",
                    ![i].cause = o.err,
                    ![i].err = IF o.err # NoError
                               THEN Wrap("failed to apply commit plan", o.err)
                               ELSE NoError]
        /\ UNCHANGED <<uuid, aggVars, valVars, planVars, qryVars>>

\* the database the service attaches to: empty, or holding one product
InitUseCase ==
    /\ product = Val(modelToDomain(CHOOSE r \in StoredRows : TRUE).p)
    /\ lastCall = Call("ReconstructProduct", NoArgs, 0, [err |-> NoErr], Nil)
    /\ \/ store = EmptyMap
       \/ \E r \in SeededRows : store = (r.product_id :> r)
    /\ outbox = <<>>
    /\ execs = <<>>
    /\ uuid = 0
    /\ ValuesIdle
    /\ PlanIdle
    /\ QueriesIdle

NextUseCase ==
    \/ StartCreateProduct
    \/ StartUpdateProduct
    \/ StartApplyDiscount
    \/ StartRemoveDiscount
    \/ StartArchiveProduct
    \/ Commit

SpecUseCase == InitUseCase /\ [][NextUseCase]_vars

----------------------------------------------------------------------------
(* SpecPlan: one commit plan assembled a call at a time.  Plan.Add is      *)
(* called with a mutation pointer, nil included; the interactor's event    *)
(* loop enriches one event, builds its outbox mutation and adds it unless  *)
(* it is nil; Committer.Apply commits what has been staged.                *)

\* Plan.Add calls made on one plan
MaxAdds == 3

\* a DomainEvent implementation the enricher's type switch has no case for
UnknownEvent(aggregateID, wall) ==
    [base |-> NewBaseEvent(aggregateID, "product.renamed", wall), data |-> <<>>]

\* the mutation pointers handed to Plan.Add: nil, the insert of the loaded
\* product, and the update of that product after a change of its name
MutationInputs ==
    {Nil, InsertMut(product)}
        \cup {UpdateMut(UpdateDetails(product, "n2", product.description,
                                      product.category, now, wall).p, wall) :
                 now \in Times, wall \in WallTimes}

\* the events the loop is run on
EventInputs ==
    UNION {{NewProductUpdatedEvent(product.id, wall),
            NewProductArchivedEvent(product.id, wall),
            NewDiscountAppliedEvent(product.id, 20, 0, Unix(MaxTime), wall),
            UnknownEvent(product.id, wall)} : wall \in WallTimes}

\* p.Add(mut), asked for by origin
Adds(origin, mut) ==
    /\ Len(added) < MaxAdds
    /\ staged' = PlanAdd(staged, mut)
    /\ added' = Append(added, <<origin, mut>>)

CallPlanAdd ==
    \E mut \in MutationInputs :
        /\ Adds("caller", mut)
        /\ UNCHANGED <<aggVars, ucVars, valVars, qryVars>>

\* one pass of "for _, event := range product.DomainEvents()"
StageOutboxEvent ==
    \E ev \in EventInputs, marshalFails \in BOOLEAN, wall \in WallTimes :
        LET outboxEvent == EnrichEvent(ev, NewUUID(uuid + 1))
            outboxMut == OutboxInsertMut(outboxEvent, marshalFails, wall)
        IN  /\ Len(added) < MaxAdds
            /\ uuid < MaxAdds
            /\ uuid' = uuid + 1
            /\ IF ~IsNil(outboxMut)
               THEN Adds(EventType(ev), outboxMut)
               ELSE UNCHANGED planVars
            /\ UNCHANGED <<aggVars, store, outbox, execs, valVars, qryVars>>

\* it.committer.Apply(ctx, plan) on the staged plan
CommitStaged ==
    /\ outbox = <<>>
    /\ \E o \in Apply(DB, staged) :
          /\ store' = o.db.products
          /\ outbox' = o.db.outbox
    /\ UNCHANGED <<aggVars, execs, uuid, valVars, planVars, qryVars>>

\* the products table holds the loaded product; the plan is fresh from NewPlan
InitPlan ==
    /\ \E r \in SeededRows :
          /\ product = Val(modelToDomain(r).p)
          /\ store = (r.product_id :> r)
    /\ lastCall = Call("ReconstructProduct", NoArgs, 0, [err |-> NoErr], Nil)
    /\ outbox = <<>>
    /\ execs = <<>>
    /\ uuid = 0
    /\ ValuesIdle
    /\ staged = NewPlan
    /\ added = <<>>
    /\ QueriesIdle

NextPlan ==
    \/ CallPlanAdd
    \/ StageOutboxEvent
    \/ CommitStaged

SpecPlan == InitPlan /\ [][NextPlan]_vars

----------------------------------------------------------------------------
(* SpecQuery: a client creates products, applies discounts to them and     *)
(* reads products back through get_product.Query; it sends a command when  *)
(* the one before has returned.  asked keeps the request of each           *)
(* execution, reply the last GetProduct call and what it returned.         *)

\* base prices in lowest terms and not
QueryCreateRequests ==
    {Request("", "n1", "d1", "c1", 1999, 100, 0, 0, 0),
     Request("", "n1", "d1", "c1", 10000, 100, 0, 0, 0)}

\* a 20% discount over the whole range of instants
QueryDiscountRequests ==
    {Request(id, "", "", "", 0, 0, 20, 0, Unix(MaxTime)) : id \in DOMAIN store}

\* every command sent has returned
Returned == \A i \in 1 .. Len(execs) : execs[i].pc = "done"

AskCreateProduct ==
    \E req \in QueryCreateRequests, env \in Envs :
        /\ Returned
        /\ ~env.readFails
        /\ ~env.marshalFails
        /\ Runs(CreateProductExecute(req, env))
        /\ asked' = Append(asked, req)
        /\ UNCHANGED reply

AskApplyDiscount ==
    \E req \in QueryDiscountRequests, env \in Envs :
        /\ Returned
        /\ ~env.readFails
        /\ ~env.marshalFails
        /\ Runs(ApplyDiscountExecute(DB, req, env))
        /\ asked' = Append(asked, req)
        /\ UNCHANGED reply

\* a stored product with the largest base price its column can hold and a
\* 20% discount over the whole range of instants
LargePricedRow ==
    Row("p1", "n1", "d1", "c1", MaxInt64, 1, Some(20), Some(0), Some(MaxTime),
        ProductStatusActive, 0, 0, Nil)

\* get_product.Query.Execute
CallGetProduct ==
    \E productID \in ProductIDs, now \in Times, readFails \in BOOLEAN :
        /\ reply' = <<<<productID, now, GetProduct(DB, productID, now, readFails)>>>>
        /\ UNCHANGED <<aggVars, ucVars, valVars, planVars, asked>>

InitQuery ==
    /\ product = Val(modelToDomain(CHOOSE r \in StoredRows : TRUE).p)
    /\ lastCall = Call("ReconstructProduct", NoArgs, 0, [err |-> NoErr], Nil)
    /\ \/ store = EmptyMap
       \/ \E r \in SeededRows \cup {LargePricedRow} : store = (r.product_id :> r)
    /\ outbox = <<>>
    /\ execs = <<>>
    /\ uuid = 0
    /\ ValuesIdle
    /\ PlanIdle
    /\ QueriesIdle

NextQuery ==
    \/ AskCreateProduct
    \/ AskApplyDiscount
    \/ Commit
    \/ CallGetProduct

SpecQuery == InitQuery /\ [][NextQuery]_vars

----------------------------------------------------------------------------
(* SpecList: a client walks the product list: the first ListProducts call  *)
(* carries an empty page token, each later call the NextPageToken of the   *)
(* reply before it, with the page size and the filters of the first call.  *)

PageSizes == 0 .. 2
\* (status, category) filters: none, and the ones every listed row matches
ListFilters == {<<"", "">>, <<ProductStatusActive, "c1">>}

\* the i-th product of a listed table; every second one carries a discount
\* for the last instant
ListedRow(i) ==
    Row(KeyOrder[i], "n" \o ToString(i), "d1", "c1", 100, 1,
        IF i % 2 = 1 THEN Some(20) ELSE Nil,
        IF i % 2 = 1 THEN Some(MaxTime) ELSE Nil,
        IF i % 2 = 1 THEN Some(MaxTime) ELSE Nil,
        ProductStatusActive, 0, 0, Nil)

CallListProducts ==
    \E pageSize \in PageSizes, f \in ListFilters, now \in Times, doneCode \in DoneCodes :
        LET pageToken == IF reply = <<>> THEN ""
                         ELSE reply[Len(reply)][2].NextPageToken
            filter == ListProductsFilter(f[2], pageSize, pageToken, f[1])
        IN  /\ Len(reply) < MaxCalls
            /\ reply # <<>> =>
                  /\ reply[Len(reply)][2].err = NoError
                  /\ pageToken # ""
                  /\ reply[Len(reply)][1] = [filter EXCEPT !.PageToken = reply[Len(reply)][1].PageToken]
            /\ reply' = Append(reply, <<filter, ListProducts(DB, filter, now, doneCode)>>)
            /\ UNCHANGED <<aggVars, ucVars, valVars, planVars, asked>>

InitList ==
    /\ product = Val(modelToDomain(CHOOSE r \in StoredRows : TRUE).p)
    /\ lastCall = Call("ReconstructProduct", NoArgs, 0, [err |-> NoErr], Nil)
    /\ \E n \in 0 .. MaxStored :
          store = [k \in {KeyOrder[i] : i \in 1 .. n} |->
                      ListedRow(CHOOSE i \in 1 .. n : KeyOrder[i] = k)]
    /\ outbox = <<>>
    /\ execs = <<>>
    /\ uuid = 0
    /\ ValuesIdle
    /\ PlanIdle
    /\ QueriesIdle

NextList == CallListProducts

SpecList == InitList /\ [][NextList]_vars

----------------------------------------------------------------------------
(* Properties of the aggregate, checked under Spec *)

Called == ~IsNil(lastCall.pre)
Before == Val(lastCall.pre)
EventTypes(p) == [i \in 1 .. Len(p.events) |-> EventType(p.events[i])]
LastEvent(p) == p.events[Len(p.events)]

\* C1: once the status is archived, a business-method call changes no field,
\* no dirty flag and no event of the aggregate, so the status stays archived.
C1_ArchivedIsTerminal ==
    (Called /\ Before.status = ProductStatusArchived) => product = Before

C1_Witness ==
    /\ Called
    /\ Before.status = ProductStatusArchived
    /\ lastCall.op = "UpdateDetails"
    /\ lastCall.args.name \notin {"", Before.name}
    /\ lastCall.args.category # ""

\* C2: on an archived product UpdateDetails, Activate, Deactivate,
\* ApplyDiscount and RemoveDiscount all fail with ProductIsArchived, and a
\* repeated Archive succeeds.
C2_ArchivedRejectsAll ==
    (Called /\ Before.status = ProductStatusArchived) =>
        /\ lastCall.op \in {"UpdateDetails", "Activate", "Deactivate",
                            "ApplyDiscount", "RemoveDiscount"}
              => lastCall.err = ErrProductIsArchived
        /\ lastCall.op = "Archive" => lastCall.err = NoErr

\* C6: the status moves only active -> inactive by Deactivate, inactive ->
\* active by Activate and active/inactive -> archived by Archive; Activate on
\* an active product fails with ProductAlreadyActive and changes nothing;
\* create, deactivate, activate ends active with the three events in order.
C6_StatusTransitions ==
    Called =>
        /\ product.status # Before.status =>
              \/ /\ lastCall.op = "Deactivate"
                 /\ Before.status = ProductStatusActive
                 /\ product.status = ProductStatusInactive
              \/ /\ lastCall.op = "Activate"
                 /\ Before.status = ProductStatusInactive
                 /\ product.status = ProductStatusActive
              \/ /\ lastCall.op = "Archive"
                 /\ Before.status \in {ProductStatusActive, ProductStatusInactive}
                 /\ product.status = ProductStatusArchived
        /\ (lastCall.op = "Activate" /\ Before.status = ProductStatusActive) =>
              (lastCall.err = ErrProductAlreadyActive /\ product = Before)
        /\ (lastCall.op = "Activate"
            /\ EventTypes(Before) = <<"product.created", "product.deactivated">>) =>
              /\ lastCall.err = NoErr
              /\ product.status = ProductStatusActive
              /\ EventTypes(product) = <<"product.created", "product.deactivated",
                                         "product.activated">>

C6_Witness ==
    /\ Called
    /\ lastCall.op = "Activate"
    /\ lastCall.err = NoErr
    /\ product.status = ProductStatusActive
    /\ EventTypes(product) = <<"product.created", "product.deactivated",
                               "product.activated">>

\* C7: ApplyDiscount(d, now) succeeds exactly when the product is active and
\* now <= d.endDate; an inactive product gives ProductNotActive, an active one
\* with now > d.endDate gives InvalidDiscountPeriod; on success the discount is
\* d and one DiscountApplied event with d's percentage, start and end is added.
C7_ApplyDiscount ==
    (Called /\ lastCall.op = "ApplyDiscount") =>
        LET d == lastCall.args.discount
            n == Len(Before.events)
        IN  /\ lastCall.err = NoErr <=>
                  (Before.status = ProductStatusActive /\ lastCall.now <= EndDate(d))
            /\ Before.status = ProductStatusInactive =>
                  lastCall.err = ErrProductNotActive
            /\ (Before.status = ProductStatusActive /\ lastCall.now > EndDate(d)) =>
                  lastCall.err = ErrInvalidDiscountPeriod
            /\ lastCall.err = NoErr =>
                  /\ product.discount = d
                  /\ Len(product.events) = n + 1
                  /\ SubSeq(product.events, 1, n) = Before.events
                  /\ EventType(LastEvent(product)) = "discount.applied"
                  /\ LastEvent(product).data =
                        [DiscountPercent |-> Percentage(d),
                         StartDate |-> Unix(StartDate(d)),
                         EndDate |-> Unix(EndDate(d))]

C7_Witness ==
    /\ Called
    /\ lastCall.op = "ApplyDiscount"
    /\ lastCall.err = NoErr
    /\ lastCall.now = EndDate(lastCall.args.discount)
    /\ StartDate(lastCall.args.discount) < lastCall.now
    /\ product.discount = lastCall.args.discount

\* C8: Deactivate on an inactive product and Archive on an archived product
\* succeed and leave the whole aggregate (fields, updatedAt, dirty flags,
\* events) as it was, so the second of two such calls changes nothing.
C8_IdempotentNoOps ==
    (Called /\ \/ (lastCall.op = "Deactivate" /\ Before.status = ProductStatusInactive)
               \/ (lastCall.op = "Archive" /\ Before.status = ProductStatusArchived))
        => (lastCall.err = NoErr /\ product = Before)

C8_Witness ==
    /\ Called
    /\ lastCall.op = "Deactivate"
    /\ Before.status = ProductStatusInactive
    /\ Len(Before.events) > 0
    /\ EventType(LastEvent(Before)) = "product.deactivated"
    /\ lastCall.now # Before.updatedAt
    /\ lastCall.err = NoErr

\* C9: a dirty field is marked exactly when an event has been raised: the
\* dirty-field set is non-empty if and only if the event buffer is non-empty.
C9_DirtyIffEvents ==
    (product.changes # {}) <=> (Len(product.events) > 0)

C9_Witness ==
    /\ Called
    /\ Len(product.events) = 2
    /\ EventType(product.events[1]) # "product.created"
    /\ product.changes # {}
    /\ Before.changes # {}

\* C10: a call either appends exactly one event at the end of the buffer and
\* sets updatedAt to its now, or appends none and leaves updatedAt alone; the
\* events already in the buffer stay as they were, in their order.
C10_OneEventAtEnd ==
    Called =>
        LET n == Len(Before.events)
        IN  \/ /\ Len(product.events) = n + 1
               /\ SubSeq(product.events, 1, n) = Before.events
               /\ product.updatedAt = lastCall.now
            \/ /\ product.events = Before.events
               /\ product.updatedAt = Before.updatedAt

C10_Witness ==
    /\ Called
    /\ Len(Before.events) > 0
    /\ Len(product.events) = Len(Before.events) + 1
    /\ LastEvent(product) # LastEvent(Before)
    /\ lastCall.now # Before.updatedAt


----------------------------------------------------------------------------
(* Properties of the commit pipeline, checked under SpecUseCase *)

Running == 1 .. Len(execs)

\* a mutation is visible in the database: the row it names by key exists and
\* carries every column value of the mutation
Applied(db, m) ==
    /\ KeyColumn(m.table) \in DOMAIN m.cols
    /\ IF m.table = ProductsTable
       THEN /\ m.cols.product_id \in DOMAIN db.products
            /\ \A c \in DOMAIN m.cols :
                  db.products[m.cols.product_id][c] = m.cols[c]
       ELSE \E i \in OutboxIndex(db.outbox, m.cols.event_id) :
                \A c \in DOMAIN m.cols : db.outbox[i][c] = m.cols[c]

DomainErrors ==
    {ErrProductNotActive, ErrProductIsArchived, ErrProductAlreadyActive,
     ErrInvalidDiscountPeriod, ErrNoActiveDiscount, ErrInvalidName,
     ErrInvalidCategory}

\* C3: a step in which Committer.Apply runs on a plan of n >= 1 mutations
\* either returns success with all n mutations visible in the tables, or
\* returns an error with both tables unchanged and none of the n visible; no
\* step exposes a part of a plan.
C3_ApplyAllOrNothing ==
    [][\A i \in Running :
          (execs[i].pc = "apply" /\ execs'[i].pc = "done"
                /\ Size(execs[i].plan) >= 1) =>
             \/ /\ execs'[i].cause = NoError
                /\ \A k \in 1 .. Size(execs[i].plan) :
                      Applied(DB', execs[i].plan[k])
             \/ /\ execs'[i].cause # NoError
                /\ store' = store
                /\ outbox' = outbox
                /\ \A k \in 1 .. Size(execs[i].plan) :
                      ~Applied(DB', execs[i].plan[k])]_vars

C3_Witness ==
    \E i \in Running :
        /\ execs[i].pc = "done"
        /\ execs[i].applyCalls = 1
        /\ execs[i].err = NoError
        /\ Size(execs[i].plan) >= 2
        /\ \A k \in 1 .. Size(execs[i].plan) : Applied(DB, execs[i].plan[k])

\* C4: whenever a successfully committed execution wrote the product row,
\* the outbox table holds one record for each event the domain call raised,
\* also when the outbox repository built no mutation for an event.
C4_OutboxWithStateChange ==
    \A i \in Running :
        (/\ execs[i].pc = "done"
         /\ execs[i].err = NoError
         /\ \E k \in 1 .. Size(execs[i].plan) :
               /\ execs[i].plan[k].table = ProductsTable
               /\ Applied(DB, execs[i].plan[k]))
        => \A j \in 1 .. Len(execs[i].events) :
              \E r \in OutboxIndex(outbox, execs[i].eventIDs[j]) :
                  /\ outbox[r].event_type = EventType(execs[i].events[j])
                  /\ outbox[r].aggregate_id = execs[i].productID

\* C5: an update, apply-discount, remove-discount or archive execution whose
\* FindByID or domain method fails ends in that step with no plan built,
\* Committer.Apply not called, both tables unchanged, and returns the very
\* error it received: ProductNotFound (or the repository's read failure) from
\* the load, the bare domain error from the domain call; and it is never
\* committed afterwards.
C5_FailureBeforePlan ==
    /\ [](\A i \in Running :
             execs[i].stage \in {"load", "domain"} =>
                /\ execs[i].pc = "done"
                /\ ~execs[i].planBuilt
                /\ execs[i].plan = NewPlan
                /\ execs[i].applyCalls = 0
                /\ execs[i].err = execs[i].cause
                /\ execs[i].stage = "load" =>
                      execs[i].err \in
                          {Error(ErrProductNotFound),
                           Wrap("failed to read product", SpannerError)}
                /\ execs[i].stage = "domain" =>
                      /\ execs[i].err.wraps = <<>>
                      /\ execs[i].err.base \in DomainErrors)
    /\ [][\A i \in 1 .. Len(execs') :
             (i > Len(execs) /\ execs'[i].stage \in {"load", "domain"}) =>
                /\ store' = store
                /\ outbox' = outbox
                /\ (execs'[i].stage = "load"
                        /\ execs'[i].err # Wrap("failed to read product", SpannerError))
                      => /\ execs'[i].productID \notin DOMAIN store
                         /\ execs'[i].err = Error(ErrProductNotFound)
                /\ (execs'[i].stage = "domain"
                        /\ execs'[i].uc \in {"update_product", "remove_discount"}
                        /\ store[execs'[i].productID].status = ProductStatusArchived)
                      => execs'[i].err = Error(ErrProductIsArchived)]_vars

C5_Witness ==
    \E i \in Running :
        /\ execs[i].uc = "update_product"
        /\ execs[i].stage = "domain"
        /\ execs[i].pc = "done"
        /\ execs[i].productID \in DOMAIN store
        /\ store[execs[i].productID].status = ProductStatusArchived
        /\ execs[i].err = Error(ErrProductIsArchived)
        /\ \E j \in Running :
              execs[j].stage = "load" /\ execs[j].err = Error(ErrProductNotFound)

\* C21: Committer.Apply on a plan with no mutation has one outcome: success,
\* no call of the storage client, both tables as they were; the execution
\* that commits such a plan ends without error and changes neither table.
C21_EmptyPlanNoContact ==
    /\ [](\A i \in Running :
             (execs[i].pc = "apply" /\ Size(execs[i].plan) = 0) =>
                Apply(DB, execs[i].plan)
                    = {[db |-> DB, err |-> NoError, contacted |-> FALSE]})
    /\ [][\A i \in Running :
             (execs[i].pc = "apply" /\ execs'[i].pc = "done"
                   /\ Size(execs[i].plan) = 0) =>
                (execs'[i].cause = NoError /\ execs'[i].err = NoError
                   /\ store' = store /\ outbox' = outbox)]_vars

C21_Witness ==
    \E i \in Running :
        /\ execs[i].uc = "archive_product"
        /\ execs[i].pc = "done"
        /\ execs[i].planBuilt
        /\ execs[i].applyCalls = 1
        /\ Size(execs[i].plan) = 0
        /\ execs[i].err = NoError
        /\ store[execs[i].productID].status = ProductStatusArchived
        /\ outbox = <<>>

\* the columns of a mutation that do not depend on generated ids or clocks
BusinessColumns ==
    {"name", "description", "category", "base_price_numerator",
     "base_price_denominator", "discount_percent", "discount_start_date",
     "discount_end_date", "status", "archived_at", "event_type"}

Business(cols) == [c \in DOMAIN cols \cap BusinessColumns |-> cols[c]]

\* two executions staged the same writes, generated ids and clocks aside
SamePlan(a, b) ==
    /\ a.uc = b.uc
    /\ Size(a.plan) = Size(b.plan)
    /\ \A k \in 1 .. Size(a.plan) :
          /\ a.plan[k].op = b.plan[k].op
          /\ a.plan[k].table = b.plan[k].table
          /\ Business(a.plan[k].cols) = Business(b.plan[k].cols)

\* the tables as the service found them: the seeded product, no outbox row
SeededDB ==
    [products |-> [k \in DOMAIN store \cap {r.product_id : r \in SeededRows} |-> store[k]],
     outbox |-> <<>>]

BusinessRows(db) == {Business(db.products[k]) : k \in DOMAIN db.products}

\* C23: a commit that fails ends the execution with an error that wraps the
\* commit error, after one call of Committer.Apply, with both tables as
\* before, and a finished execution is never run again by the interactor.
\* When the caller has run the use case again from scratch and that second
\* execution committed, the tables hold what the first execution would have
\* left had its commit succeeded: as many products with the same business
\* columns and as many outbox records.
C23_FailedCommitAndRetry ==
    /\ [][\A i \in Running :
             (execs[i].pc = "apply" /\ execs'[i].pc = "done"
                   /\ execs'[i].cause # NoError) =>
                (/\ execs'[i].err = Wrap("failed to apply commit plan", execs'[i].cause)
                 /\ execs'[i].cause = Wrap("failed to apply commit plan", SpannerError)
                 /\ execs'[i].applyCalls = 1
                 /\ store' = store
                 /\ outbox' = outbox)]_vars
    /\ [][\A i \in Running : execs[i].pc = "done" => execs'[i] = execs[i]]_vars
    /\ [](\A i \in Running : \A j \in Running :
             (/\ i < j
              /\ execs[i].stage = "commit"
              /\ execs[j].pc = "done" /\ execs[j].err = NoError
              /\ SamePlan(execs[i], execs[j])
              /\ \A k \in Running \ {i, j} :
                    execs[k].stage = "commit" \/ ~execs[k].planBuilt
                        \/ Size(execs[k].plan) = 0)
             => LET first == writeAll(SeededDB, Mutations(execs[i].plan))
                IN  /\ first.ok
                    /\ Cardinality(DOMAIN store) = Cardinality(DOMAIN first.db.products)
                    /\ BusinessRows(DB) = BusinessRows(first.db)
                    /\ Len(outbox) = Len(first.db.outbox))

C23_Witness ==
    /\ Len(execs) = 2
    /\ execs[1].uc = "create_product"
    /\ execs[1].stage = "commit"
    /\ execs[1].applyCalls = 1
    /\ execs[1].err = Wrap("failed to apply commit plan",
                           Wrap("failed to apply commit plan", SpannerError))
    /\ execs[2].pc = "done"
    /\ execs[2].err = NoError
    /\ SamePlan(execs[1], execs[2])
    /\ Size(execs[2].plan) = 2
    /\ DOMAIN store = {execs[2].productID}
    /\ Len(outbox) = 1

Range(f) == {f[x] : x \in DOMAIN f}

\* the part of the tables that belongs to one product id: its row and the
\* outbox records of that aggregate
Only(db, id) ==
    [products |-> [k \in DOMAIN db.products \cap {id} |-> db.products[k]],
     outbox |-> SelectSeq(db.outbox, LAMBDA r : r.aggregate_id = id)]

\* the execution that takes the step: the one started or the one committed
Acting(i) == i > Len(execs) \/ execs'[i] # execs[i]

\* the outcomes of committing a plan, seen from one product id
OutcomesFor(db, plan, id) ==
    {[db |-> Only(o.db, id), err |-> o.err] : o \in Apply(db, plan)}

\* C29: executions on different product ids do not affect each other.  A
\* step of an execution on one id leaves the row and the outbox records of
\* every other id as they were; what an execution loads, decides and stages
\* is the same with the other ids' rows and records absent; and so is what
\* its commit does to its own row and records.  Hence in every interleaving
\* the final row and outbox records of an id are those of the executions on
\* that id alone.
C29_IndependentAcrossIds ==
    /\ [][\A i \in 1 .. Len(execs') :
             Acting(i) =>
                \A id \in (DOMAIN store \cup DOMAIN store'
                              \cup {r.aggregate_id : r \in Range(outbox')})
                           \ {execs'[i].productID} :
                    Only(DB', id) = Only(DB, id)]_vars
    /\ [](\A req \in UpdateRequests, env \in Envs :
             UpdateProductExecute(DB, req, env)
                 = UpdateProductExecute(Only(DB, req.ProductID), req, env))
    /\ [](\A req \in ApplyDiscountRequests, env \in Envs :
             ApplyDiscountExecute(DB, req, env)
                 = ApplyDiscountExecute(Only(DB, req.ProductID), req, env))
    /\ [](\A req \in IDRequests, env \in Envs :
             /\ RemoveDiscountExecute(DB, req, env)
                   = RemoveDiscountExecute(Only(DB, req.ProductID), req, env)
             /\ ArchiveProductExecute(DB, req, env)
                   = ArchiveProductExecute(Only(DB, req.ProductID), req, env))
    /\ [](\A i \in Running :
             execs[i].pc = "apply" =>
                OutcomesFor(DB, execs[i].plan, execs[i].productID)
                    = OutcomesFor(Only(DB, execs[i].productID), execs[i].plan,
                                  execs[i].productID))

\* an execution on a stored id has loaded its row and staged its change and
\* waits to commit, while an execution on another id, started after it, has
\* committed its row and its outbox record
C29_Witness ==
    /\ Len(execs) = 2
    /\ execs[1].productID # execs[2].productID
    /\ execs[1].pc = "apply"
    /\ Size(execs[1].plan) > 0
    /\ execs[1].productID \in DOMAIN store
    /\ execs[2].pc = "done"
    /\ execs[2].err = NoError
    /\ execs[2].applyCalls = 1
    /\ execs[2].productID \in DOMAIN store
    /\ \E k \in DOMAIN outbox : outbox[k].aggregate_id = execs[2].productID

\* the domain call changed nothing and the repository has nothing to write
NothingToWrite(call, wall) ==
    /\ call.err = NoErr
    /\ call.p.events = <<>>
    /\ ~HasChanges(call.p.changes)
    /\ IsNil(UpdateMut(call.p, wall))

\* the execution started in this step
Started == execs'[Len(execs')]

\* C32: a use case whose domain call is a successful no-op (archive of an
\* archived product, update with the stored name, description and category)
\* raises no event and dirties no field, gets no update mutation, commits an
\* empty plan without contacting storage, leaves the row and the outbox
\* unchanged and returns success.
C32_NoOpUseCase ==
    /\ [](\A id \in DOMAIN store : \A now \in WindowEdges, wall \in WallTimes :
             LET p == Val(FindByID(DB, id, FALSE).p)
             IN  IF p.status = ProductStatusArchived
                 THEN NothingToWrite(Archive(p, now, wall), wall)
                 ELSE NothingToWrite(UpdateDetails(p, p.name, p.description,
                                                   p.category, now, wall), wall))
    /\ [][(/\ Len(execs') = Len(execs) + 1
           /\ Started.uc \in {"archive_product", "update_product"}
           /\ Started.planBuilt
           /\ Started.events = <<>>)
          => (/\ Started.pc = "apply"
              /\ Size(Started.plan) = 0
              /\ Apply(DB, Started.plan)
                    = {[db |-> DB, err |-> NoError, contacted |-> FALSE]})]_vars
    /\ [][(/\ Len(execs') = Len(execs) + 1
           /\ Started.uc = "archive_product"
           /\ Started.stage # "load"
           /\ store[Started.productID].status = ProductStatusArchived)
          => (Started.planBuilt /\ Started.events = <<>>)]_vars
    /\ [][\A i \in Running :
             (/\ execs[i].pc = "apply" /\ execs'[i].pc = "done"
              /\ execs[i].uc \in {"archive_product", "update_product"}
              /\ execs[i].events = <<>>)
             => (/\ store' = store
                 /\ outbox' = outbox
                 /\ execs'[i].err = NoError)]_vars

\* an archive of an archived product has returned
C32_Witness ==
    \E i \in Running :
        /\ execs[i].uc = "archive_product"
        /\ execs[i].pc = "done"
        /\ execs[i].planBuilt
        /\ Size(execs[i].plan) = 0
        /\ execs[i].applyCalls = 1
        /\ execs[i].err = NoError
        /\ execs[i].productID \in DOMAIN store
        /\ store[execs[i].productID].status = ProductStatusArchived

DiscountColumns == {"discount_percent", "discount_start_date", "discount_end_date"}

CallsOn(p) ==
    {UpdateDetails(p, a[1], a[2], a[3], now, wall) :
        a \in DetailInputs, now \in Times, wall \in WallTimes}
    \cup {Activate(p, now, wall) : now \in Times, wall \in WallTimes}
    \cup {Deactivate(p, now, wall) : now \in Times, wall \in WallTimes}
    \cup {ApplyDiscount(p, d, now, wall) :
              d \in DiscountInputs, now \in Times, wall \in WallTimes}
    \cup {RemoveDiscount(p, now, wall) : now \in Times, wall \in WallTimes}
    \cup {Archive(p, now, wall) : now \in Times, wall \in WallTimes}

Collected(p) == [p EXCEPT !.events = <<>>]

\* one instance, starting as p with no event pending, can raise events of
\* these types in this order
RECURSIVE CanRaise(_, _)
CanRaise(p, types) ==
    \/ types = <<>>
    \/ \E res \in CallsOn(p) :
          /\ res.err = NoErr
          /\ EventTypes(res.p) = <<Head(types)>>
          /\ CanRaise(Collected(res.p), Tail(types))

\* some Product instance with this id, created or loaded from a row a table
\* can hold, can raise events of these types in this order
RaisableBy(id, types) ==
    \/ /\ types # <<>>
       /\ Head(types) = "product.created"
       /\ \E now \in Times, wall \in WallTimes :
             CanRaise(Collected(Val(NewProduct(id, "n1", "d1", "c1",
                                        NewMoney(1999, 100).m, now, wall).p)),
                      Tail(types))
    \/ \E r \in StoredRows :
          CanRaise(Val(modelToDomain([r EXCEPT !.product_id = id]).p), types)

\* the event types of the outbox records of one aggregate, in commit order
CommittedTypes(id) ==
    LET recs == SelectSeq(outbox, LAMBDA r : r.aggregate_id = id)
    IN  [k \in 1 .. Len(recs) |-> recs[k].event_type]

WallReadings == {MaxTime + 1, MaxTime + 2}

\* the staged plan takes its times from the injected clock: updated_at of
\* the product mutation and occurredAt of each raised event are now
TimedByClock(exec, now) ==
    exec.planBuilt =>
       /\ \A k \in 1 .. Len(exec.plan) :
             exec.plan[k].table = ProductsTable =>
                exec.plan[k].cols.updated_at = now
       /\ \A j \in 1 .. Len(exec.events) : exec.events[j].base.occurredAt = now

\* C37: an execution is deterministic under the injected clock: from the
\* same stored state, with the same request and the same Clock.Now(), it
\* stages the same plan whatever the wall clock reads, with updated_at and
\* every occurred_at equal to the supplied now.
C37_DeterministicUnderClock ==
    \A env \in Envs : \A w \in WallReadings :
        LET other == [env EXCEPT !.wall = w]
        IN  /\ \A req \in CreateRequests :
                  /\ CreateProductExecute(req, other).plan = CreateProductExecute(req, env).plan
                  /\ TimedByClock(CreateProductExecute(req, env), env.now)
            /\ \A req \in UpdateRequests :
                  /\ UpdateProductExecute(DB, req, other).plan
                        = UpdateProductExecute(DB, req, env).plan
                  /\ TimedByClock(UpdateProductExecute(DB, req, env), env.now)
            /\ \A req \in ApplyDiscountRequests :
                  /\ ApplyDiscountExecute(DB, req, other).plan
                        = ApplyDiscountExecute(DB, req, env).plan
                  /\ TimedByClock(ApplyDiscountExecute(DB, req, env), env.now)
            /\ \A req \in IDRequests :
                  /\ RemoveDiscountExecute(DB, req, other).plan
                        = RemoveDiscountExecute(DB, req, env).plan
                  /\ TimedByClock(RemoveDiscountExecute(DB, req, env), env.now)
                  /\ ArchiveProductExecute(DB, req, other).plan
                        = ArchiveProductExecute(DB, req, env).plan
                  /\ TimedByClock(ArchiveProductExecute(DB, req, env), env.now)

\* C38: every update mutation staged for a product names its row by that
\* product's id, so that applying it writes the row of that id and no other.
C38_UpdateNamesItsRow ==
    \A i \in Running : \A k \in 1 .. Len(execs[i].plan) :
        execs[i].plan[k].op = "update" =>
           /\ KeyColumn(ProductsTable) \in DOMAIN execs[i].plan[k].cols
           /\ execs[i].plan[k].cols[KeyColumn(ProductsTable)] = execs[i].productID
           /\ \A o \in Apply(DB, <<execs[i].plan[k]>>) :
                 \A id \in DOMAIN store \ {execs[i].productID} :
                     o.db.products[id] = store[id]

\* the payload fields that enrichment owes to an event beyond the three
\* common ones
VariantFields(ev) ==
    IF EventType(ev) = "product.created"
    THEN [name |-> ev.data.Name, category |-> ev.data.Category,
          base_price_numerator |-> ev.data.BasePriceNumerator,
          base_price_denominator |-> ev.data.BasePriceDenominator]
    ELSE IF EventType(ev) = "discount.applied"
    THEN [discount_percent |-> ev.data.DiscountPercent,
          start_date |-> ev.data.StartDate, end_date |-> ev.data.EndDate]
    ELSE EmptyMap

\* the outbox mutations an execution staged for its j-th raised event
StagedFor(exec, j) ==
    {exec.plan[k].cols : k \in {n \in 1 .. Len(exec.plan) :
        /\ exec.plan[n].table = OutboxTable
        /\ exec.plan[n].cols.event_id = exec.eventIDs[j]}}

\* C31: the outbox record staged for a raised event carries the event's
\* aggregate id and event type, and its payload holds aggregate_id,
\* event_type and occurred_at and the fields of the event's variant
\* (percentage, start and end for discount.applied; name, category and base
\* price for product.created), in every use case.
C31_EnrichedPayloads ==
    \A i \in Running : \A j \in 1 .. Len(execs[i].events) :
        \A rec \in StagedFor(execs[i], j) :
            LET ev == execs[i].events[j]
                fields == VariantFields(ev)
            IN  /\ rec.aggregate_id = ev.base.aggregateID
                /\ rec.event_type = ev.base.eventType
                /\ rec.payload[1] = "object"
                /\ rec.payload[2].aggregate_id = ev.base.aggregateID
                /\ rec.payload[2].event_type = ev.base.eventType
                /\ rec.payload[2].occurred_at = Unix(ev.base.occurredAt)
                /\ \A f \in DOMAIN fields :
                      /\ f \in DOMAIN rec.payload[2]
                      /\ rec.payload[2][f] = fields[f]

----------------------------------------------------------------------------
(* Properties of the plan, checked under SpecPlan *)

\* the non-nil arguments of the Add calls made so far, in call order
RECURSIVE NonNilAdded(_)
NonNilAdded(calls) ==
    IF calls = <<>> THEN <<>>
    ELSE IF IsNil(Head(calls)[2]) THEN NonNilAdded(Tail(calls))
    ELSE <<Val(Head(calls)[2])>> \o NonNilAdded(Tail(calls))

IsPrefix(a, b) == Len(a) <= Len(b) /\ SubSeq(b, 1, Len(a)) = a

\* C22: after any sequence of Plan.Add calls, Size() is the number of
\* non-nil mutations added and Mutations() is exactly those mutations in the
\* order of the calls; an Add of nil leaves the plan as it was, and no step
\* removes or reorders a mutation already in the plan.
C22_PlanKeepsNonNilAdds ==
    /\ [](/\ Size(staged) = Len(NonNilAdded(added))
          /\ Mutations(staged) = NonNilAdded(added))
    /\ [][(Len(added') = Len(added) + 1 /\ IsNil(added'[Len(added')][2]))
            => staged' = staged]_vars
    /\ [][IsPrefix(Mutations(staged), Mutations(staged'))]_vars

C22_Witness ==
    /\ Len(added) = 3
    /\ ~IsNil(added[1][2])
    /\ IsNil(added[2][2])
    /\ ~IsNil(added[3][2])
    /\ added[1][2] # added[3][2]
    /\ Size(staged) = 2
    /\ Mutations(staged) = <<Val(added[1][2]), Val(added[3][2])>>

\* C30: a pass of the event loop over an event of a variant the enricher
\* does not know adds no mutation to the plan, and no outbox row is ever
\* stored for such an event (every stored row carries an event id and a
\* known event type).
C30_UnknownEventNotStaged ==
    /\ [][(Len(added') = Len(added) + 1
              /\ added'[Len(added')][1] \notin KnownEventTypes \cup {"caller"})
            => staged' = staged]_vars
    /\ [](\A i \in 1 .. Len(outbox) :
             outbox[i].event_id # "" /\ outbox[i].event_type \in KnownEventTypes)

----------------------------------------------------------------------------
(* Properties of the product query, checked under SpecQuery *)

\* the create executions that returned a product id
Created == {i \in Running : /\ execs[i].uc = "create_product"
                             /\ execs[i].pc = "done"
                             /\ execs[i].err = NoError}

\* C26: once a create execution has succeeded, a successful GetProduct for
\* the id it returned yields the name and category of the request, status
\* active, and the numerator and denominator of the request's base price as
\* they were given.
C26_QueryReturnsPriceAsCreated ==
    \A i \in Created :
        (/\ reply # <<>>
         /\ reply[1][1] = execs[i].productID
         /\ reply[1][3].err = NoError)
        => LET dto == Val(reply[1][3].dto)
           IN  /\ dto.Name = asked[i].Name
               /\ dto.Category = asked[i].Category
               /\ dto.Status = ProductStatusActive
               /\ dto.BasePriceNumerator = asked[i].BasePriceNumerator
               /\ dto.BasePriceDenominator = asked[i].BasePriceDenominator

\* C27: for a product created with base price n/d, the plan an apply-discount
\* execution brings to its commit is one the store accepts, and with it
\* written GetProduct reports, at every instant of the discount window,
\* HasDiscount true, the percentage p, effective numerator n*(100-p) and
\* effective denominator d*100.
C27_QueryReportsDiscount ==
    \A i \in Created : \A j \in Running :
        (/\ execs[j].uc = "apply_discount"
         /\ execs[j].pc = "apply"
         /\ execs[j].productID = execs[i].productID
         /\ execs[j].productID \in DOMAIN store)
        => LET applied == writeAll(DB, Mutations(execs[j].plan))
               pct == asked[j].DiscountPercent
           IN  /\ applied.ok
               /\ \A now \in Times :
                     (FromUnix(asked[j].DiscountStartSec) <= now
                         /\ now <= FromUnix(asked[j].DiscountEndSec))
                     => LET got == GetProduct(applied.db, execs[j].productID, now, FALSE)
                        IN  /\ got.err = NoError
                            /\ Val(got.dto).HasDiscount
                            /\ Val(got.dto).DiscountPercent = Some(pct)
                            /\ Val(got.dto).EffectivePriceNumerator
                                  = asked[i].BasePriceNumerator * (100 - pct)
                            /\ Val(got.dto).EffectivePriceDenominator
                                  = asked[i].BasePriceDenominator * 100

\* numerator over denominator is the Money m
SameRational(numerator, denominator, m) ==
    /\ denominator # 0
    /\ ~IsNil(m)
    /\ NewRat(numerator, denominator) = Val(m)

\* C39: the effective price GetProduct reports for a stored row at an
\* instant is, as a rational, the price Product.EffectivePrice returns at
\* that instant for the aggregate loaded from the row, also when the base
\* price is so large that the read model's integer products leave the
\* integer range.
C39_ReadModelPriceIsEffectivePrice ==
    \A k \in DOMAIN reply :
        LET productID == reply[k][1]
            now == reply[k][2]
            got == reply[k][3]
        IN  (got.err = NoError /\ productID \in DOMAIN store) =>
               LET loaded == Val(FindByID(DB, productID, FALSE).p)
               IN  SameRational(Val(got.dto).EffectivePriceNumerator,
                                Val(got.dto).EffectivePriceDenominator,
                                EffectivePrice(loaded, now).m)

----------------------------------------------------------------------------
(* Properties of the list walk, checked under SpecList *)

\* the product ids of the pages of a walk, one after the other
RECURSIVE WalkIDs(_)
WalkIDs(walk) ==
    IF walk = <<>> THEN <<>>
    ELSE WalkIDs(SubSeq(walk, 1, Len(walk) - 1))
            \o [i \in 1 .. Len(walk[Len(walk)][2].Products) |->
                    walk[Len(walk)][2].Products[i].ProductID]

StoredIDs == SelectSeq(KeyOrder, LAMBDA k : k \in DOMAIN store)

\* C28: in a walk with page size k >= 1 whose calls succeed, every page
\* holds at most k products, the pages so far are the first stored products
\* in product-id order with none repeated, and a reply carries an empty
\* NextPageToken exactly when every stored product has been returned, so the
\* walk over N products ends after ceil(N/k) calls.
C28_PaginationWalk ==
    (/\ reply # <<>>
     /\ reply[1][1].PageSize >= 1
     /\ \A j \in 1 .. Len(reply) : reply[j][2].err = NoError)
    => /\ \A j \in 1 .. Len(reply) :
             Len(reply[j][2].Products) <= reply[1][1].PageSize
       /\ Len(WalkIDs(reply)) <= Len(StoredIDs)
       /\ WalkIDs(reply) = SubSeq(StoredIDs, 1, Len(WalkIDs(reply)))
       /\ \A j \in 1 .. Len(reply) :
             (reply[j][2].NextPageToken = "")
                <=> (Len(WalkIDs(SubSeq(reply, 1, j))) = Len(StoredIDs))

----------------------------------------------------------------------------
(* Further properties of the aggregate, checked under Spec *)

DetailFields == {"name", "description", "category"}
AllFields ==
    {FieldID, FieldName, FieldDescription, FieldCategory, FieldBasePrice,
     FieldDiscount, FieldStatus, FieldArchivedAt}

\* the aggregate with its detail fields, updatedAt, dirty set and events
\* blanked: what UpdateDetails must leave alone
BesideDetails(p) ==
    [p EXCEPT !.name = "", !.description = "", !.category = "",
              !.updatedAt = 0, !.changes = {}, !.events = <<>>]

\* C11: UpdateDetails on a non-archived product with non-empty name and
\* category sets name, description and category to the arguments, marks
\* dirty, of these three, exactly the ones whose value differed, and bumps
\* updatedAt and appends one ProductUpdated event only when one differed;
\* with all three equal nothing changes.  An empty name gives InvalidName and
\* an empty category InvalidCategory with the product untouched.
C11_UpdateDetails ==
    (Called /\ lastCall.op = "UpdateDetails"
            /\ Before.status # ProductStatusArchived) =>
        LET a == lastCall.args
            differing == {f \in DetailFields : Before[f] # a[f]}
        IN  /\ a.name = "" =>
                  lastCall.err = ErrInvalidName /\ product = Before
            /\ (a.name # "" /\ a.category = "") =>
                  lastCall.err = ErrInvalidCategory /\ product = Before
            /\ (a.name # "" /\ a.category # "") =>
                  /\ lastCall.err = NoErr
                  /\ \A f \in DetailFields : product[f] = a[f]
                  /\ product.changes \cap DetailFields
                        = (Before.changes \cap DetailFields) \cup differing
                  /\ BesideDetails(product) = BesideDetails(Before)
                  /\ differing = {} => product = Before
                  /\ differing # {} =>
                        /\ product.updatedAt = lastCall.now
                        /\ Len(product.events) = Len(Before.events) + 1
                        /\ SubSeq(product.events, 1, Len(Before.events)) = Before.events
                        /\ EventType(LastEvent(product)) = "product.updated"

C11_Witness ==
    /\ Called
    /\ lastCall.op = "UpdateDetails"
    /\ lastCall.err = NoErr
    /\ Before.status = ProductStatusInactive
    /\ Before.changes = {}
    /\ lastCall.args.name = Before.name
    /\ lastCall.args.category = Before.category
    /\ lastCall.args.description # Before.description
    /\ product.changes \cap DetailFields = {FieldDescription}

\* C12: RemoveDiscount on an active or inactive product succeeds exactly
\* when a discount is present; it then clears the discount and appends one
\* DiscountRemoved event; with no discount it fails with NoActiveDiscount and
\* changes nothing.
C12_RemoveDiscount ==
    (Called /\ lastCall.op = "RemoveDiscount"
            /\ Before.status # ProductStatusArchived) =>
        /\ (lastCall.err = NoErr) <=> ~IsNil(Before.discount)
        /\ lastCall.err = NoErr =>
              /\ IsNil(product.discount)
              /\ product.status = Before.status
              /\ Len(product.events) = Len(Before.events) + 1
              /\ SubSeq(product.events, 1, Len(Before.events)) = Before.events
              /\ EventType(LastEvent(product)) = "discount.removed"
        /\ lastCall.err # NoErr =>
              lastCall.err = ErrNoActiveDiscount /\ product = Before

C12_Witness ==
    /\ Called
    /\ lastCall.op = "RemoveDiscount"
    /\ Before.status = ProductStatusInactive
    /\ ~IsNil(Before.discount)
    /\ lastCall.err = NoErr
    /\ IsNil(product.discount)

\* C20: a product returned by NewProduct is active, has createdAt =
\* updatedAt = now, no discount, no archivedAt, exactly one ProductCreated
\* event, and every field token of the change tracker marked dirty.
C20_NewProductAllDirty ==
    (lastCall.op = "NewProduct" /\ lastCall.err = NoErr) =>
        /\ product.status = ProductStatusActive
        /\ product.createdAt = lastCall.now
        /\ product.updatedAt = lastCall.now
        /\ IsNil(product.discount)
        /\ IsNil(product.archivedAt)
        /\ EventTypes(product) = <<"product.created">>
        /\ \A f \in AllFields : Dirty(product.changes, f)

\* the business method named op, called on p with the recorded arguments
Invoke(op, args, now, p, wall) ==
    CASE op = "UpdateDetails" ->
            UpdateDetails(p, args.name, args.description, args.category, now, wall)
      [] op = "Activate" -> Activate(p, now, wall)
      [] op = "Deactivate" -> Deactivate(p, now, wall)
      [] op = "ApplyDiscount" -> ApplyDiscount(p, args.discount, now, wall)
      [] op = "RemoveDiscount" -> RemoveDiscount(p, now, wall)
      [] op = "Archive" -> Archive(p, now, wall)

\* C24: a business-method call that returns an error leaves every field, the
\* dirty set and the event buffer of the aggregate as they were, and the same
\* call with the same arguments on the aggregate as it now is returns the same
\* error and again changes nothing.
C24_ErrorChangesNothing ==
    (Called /\ lastCall.err # NoErr) =>
        /\ product = Before
        /\ \A wall \in WallTimes :
              Invoke(lastCall.op, lastCall.args, lastCall.now, product, wall)
                  = [p |-> product, err |-> lastCall.err]

C24_Witness ==
    /\ Called
    /\ lastCall.op = "UpdateDetails"
    /\ lastCall.err = ErrInvalidCategory
    /\ lastCall.args.name # Before.name
    /\ Before.changes # {}
    /\ Len(Before.events) > 0
    /\ product = Before

\* C25: archivedAt is set exactly when the status is archived; the call of
\* Archive that archives the product sets it to the now of that call, and
\* once set no business method changes it.
C25_ArchivedAtIffArchived ==
    /\ [](~IsNil(product.archivedAt) <=> product.status = ProductStatusArchived)
    /\ [][(product.status # ProductStatusArchived
              /\ product'.status = ProductStatusArchived)
            => (lastCall'.op = "Archive"
                  /\ product'.archivedAt = Some(lastCall'.now))]_vars
    /\ [][~IsNil(product.archivedAt)
            => product'.archivedAt = product.archivedAt]_vars

C25_Witness ==
    /\ Called
    /\ lastCall.op = "Archive"
    /\ Before.status = ProductStatusArchived
    /\ ~IsNil(Before.archivedAt)
    /\ Val(Before.archivedAt) # lastCall.now
    /\ product.archivedAt = Before.archivedAt
    /\ Len(product.events) > 0
    /\ EventType(LastEvent(product)) = "product.archived"

\* the columns that persist a tracked field, and the values they take
FieldColumns(p) ==
    [name |-> [name |-> p.name],
     description |-> [description |-> p.description],
     category |-> [category |-> p.category],
     base_price |-> [base_price_numerator |-> Numerator(p.basePrice),
                     base_price_denominator |-> Denominator(p.basePrice)],
     discount |-> IF IsNil(p.discount)
                  THEN [discount_percent |-> Nil, discount_start_date |-> Nil,
                        discount_end_date |-> Nil]
                  ELSE [discount_percent |-> Some(Percentage(p.discount)),
                        discount_start_date |-> Some(StartDate(p.discount)),
                        discount_end_date |-> Some(EndDate(p.discount))],
     archived_at |-> [archived_at |-> p.archivedAt]]

\* C36: UpdateMut returns no mutation exactly when no field is dirty;
\* otherwise it sets the columns of each dirty field among name,
\* description, category, base price, discount (the three discount columns
\* null when there is no discount) and archived_at, no column of a field
\* among those that is not dirty, and always status and updated_at.
C36_UpdateMutColumns ==
    \A wall \in WallTimes :
        LET mut == UpdateMut(product, wall)
            owed == FieldColumns(product)
        IN  /\ IsNil(mut) <=> ~HasChanges(product.changes)
            /\ ~IsNil(mut) =>
                  /\ Val(mut).op = "update"
                  /\ Val(mut).table = ProductsTable
                  /\ \A f \in DOMAIN owed : \A c \in DOMAIN owed[f] :
                        IF Dirty(product.changes, f)
                        THEN c \in DOMAIN Val(mut).cols /\ Val(mut).cols[c] = owed[f][c]
                        ELSE c \notin DOMAIN Val(mut).cols
                  /\ {"status", "updated_at"} \subseteq DOMAIN Val(mut).cols
                  /\ Val(mut).cols.status = product.status

\* a discount has been removed from a loaded product: the discount is dirty
\* and absent, the name is clean
C36_Witness ==
    /\ Called
    /\ lastCall.op = "RemoveDiscount"
    /\ lastCall.err = NoErr
    /\ IsNil(product.discount)
    /\ Dirty(product.changes, FieldDiscount)
    /\ ~Dirty(product.changes, FieldName)
    /\ \A wall \in WallTimes : ~IsNil(UpdateMut(product, wall))

\* the product mutations the repository builds for an aggregate
ProductMuts(p) ==
    {Val(m) : m \in ({InsertMut(p)} \cup {UpdateMut(p, wall) : wall \in WallTimes}) \ {Nil}}

\* a products table that holds the row of this aggregate
TableOf(p) == [products |-> (p.id :> domainToModel(p)), outbox |-> <<>>]

\* C35: the version counter is left alone by business methods, load, plan
\* assembly and commit: the aggregate has version 0 after every business
\* method, its stored row has no version column and loads with version 0,
\* no mutation built for it has a version column, and a commit of such a
\* mutation fails with the store's error only.
C35_VersionUntouched ==
    /\ product.version = 0
    /\ "version" \notin DOMAIN domainToModel(product)
    /\ LET found == FindByID(TableOf(product), product.id, FALSE)
       IN  found.err = NoError /\ Val(found.p).version = 0
    /\ \A m \in ProductMuts(product) :
          /\ "version" \notin DOMAIN m.cols
          /\ \A o \in Apply(TableOf(product), PlanAdd(NewPlan, Some(m))) :
                o.err \in {NoError, Wrap("failed to apply commit plan", SpannerError)}

\* a loaded product has had a discount applied and has then been archived
C35_Witness ==
    /\ Called
    /\ lastCall.op = "Archive"
    /\ lastCall.err = NoErr
    /\ EventTypes(product) = <<"discount.applied", "product.archived">>
    /\ product.version = 0
    /\ Cardinality(ProductMuts(product)) = 2

----------------------------------------------------------------------------
(* Properties of pricing, checked under SpecPricing *)

\* ret is exactly base * (100 - pct) / 100, tested by cross-multiplication
IsScaled(ret, base, pct) ==
    /\ ~IsNil(ret)
    /\ Numerator(ret) * Denominator(base) * 100
          = Numerator(base) * (100 - pct) * Denominator(ret)

InWindow(d, t) == StartDate(d) <= t /\ t <= EndDate(d)
Succeeded(op) == Called /\ lastCall.op = op /\ lastCall.err = NoErr

\* C13: EffectivePrice(now) returns basePrice when the product has no
\* discount or now lies outside [startDate, endDate], and otherwise exactly
\* basePrice * (100 - percentage) / 100; the call leaves the product as it
\* was.
C13_EffectivePrice ==
    (Called /\ lastCall.op = "EffectivePrice") =>
        /\ product = Before
        /\ lastCall.err = NoErr
        /\ IF IsNil(Before.discount) \/ ~InWindow(Before.discount, lastCall.now)
           THEN lastCall.ret = Before.basePrice
           ELSE IsScaled(lastCall.ret, Before.basePrice,
                         Percentage(Before.discount))

C13_Witness ==
    /\ Called
    /\ lastCall.op = "EffectivePrice"
    /\ Before.status = ProductStatusArchived
    /\ ~IsNil(Before.discount)
    /\ InWindow(Before.discount, lastCall.now)
    /\ lastCall.ret # Before.basePrice

\* C14: an active product without discount is priced at basePrice; right
\* after a successful ApplyDiscount of p% whose window contains now it is
\* priced at basePrice*(100-p)/100 at now (1999/100 at 20% gives
\* 1999*80/10000); right after a successful RemoveDiscount it is priced at
\* basePrice at every instant.
C14_PriceThroughDiscountLifecycle ==
    /\ (Called /\ lastCall.op = "EffectivePrice" /\ IsNil(product.discount))
          => lastCall.ret = product.basePrice
    /\ (Succeeded("ApplyDiscount")
            /\ InWindow(lastCall.args.discount, lastCall.now)) =>
          LET price == EffectivePrice(product, lastCall.now).m
              pct == Percentage(lastCall.args.discount)
          IN  /\ IsScaled(price, product.basePrice, pct)
              /\ (product.basePrice = NewMoney(1999, 100).m /\ pct = 20) =>
                    Numerator(price) * 10000 = 1999 * 80 * Denominator(price)
    /\ (Called /\ lastCall.op = "EffectivePrice"
            /\ Len(product.events) > 0
            /\ EventType(LastEvent(product)) = "discount.applied"
            /\ InWindow(product.discount, lastCall.now)) =>
          IsScaled(lastCall.ret, product.basePrice, Percentage(product.discount))
    /\ Succeeded("RemoveDiscount") =>
          \A t \in Times : EffectivePrice(product, t).m = product.basePrice
    /\ (Called /\ lastCall.op = "EffectivePrice"
            /\ Len(product.events) > 0
            /\ EventType(LastEvent(product)) = "discount.removed") =>
          lastCall.ret = product.basePrice

C14_Witness ==
    /\ Called
    /\ lastCall.op = "EffectivePrice"
    /\ EventTypes(product)
          = <<"product.created", "discount.applied", "discount.removed">>
    /\ product.events[2].data.DiscountPercent = 20
    /\ product.basePrice = NewMoney(1999, 100).m
    /\ lastCall.ret = product.basePrice

\* C19: IsActiveAt(t) is startDate <= t <= endDate, IsValidAt(t) is
\* t <= endDate whatever the start, so IsActiveAt implies IsValidAt; on an
\* active product ApplyDiscount goes through exactly when now <= endDate, and
\* a product whose discount starts after now is priced at basePrice at now.
C19_ActiveAndValidAt ==
    /\ \A d \in DiscountInputs \cup ({product.discount} \ {Nil}), t \in Times :
          /\ IsActiveAt(d, t) <=> (StartDate(d) <= t /\ t <= EndDate(d))
          /\ IsValidAt(d, t) <=> t <= EndDate(d)
          /\ IsActiveAt(d, t) => IsValidAt(d, t)
    /\ (Called /\ lastCall.op = "ApplyDiscount"
            /\ Before.status = ProductStatusActive) =>
          ((lastCall.err = NoErr) <=> lastCall.now <= EndDate(lastCall.args.discount))
    /\ (Called /\ lastCall.op = "EffectivePrice" /\ ~IsNil(product.discount)
            /\ lastCall.now < StartDate(product.discount)) =>
          lastCall.ret = product.basePrice

C19_Witness ==
    /\ Called
    /\ lastCall.op = "EffectivePrice"
    /\ Len(product.events) > 0
    /\ EventType(LastEvent(product)) = "discount.applied"
    /\ lastCall.now < StartDate(product.discount)
    /\ Unix(lastCall.now) < LastEvent(product).data.StartDate
    /\ lastCall.ret = product.basePrice

----------------------------------------------------------------------------
(* Properties of the value objects, checked under SpecValues *)

\* C15: ApplyPercentage(p) with p in [0,100] returns exactly
\* receiver * (100 - p) / 100, with no rounding, and leaves the receiver as
\* it was; with p < 0 or p > 100 it fails with DiscountOutOfRange.
C15_ApplyPercentageExact ==
    calc.op = "ApplyPercentage" =>
        LET p == calc.ints[1]
        IN  /\ calc.after = calc.recv
            /\ (0 <= p /\ p <= 100) =>
                  /\ calc.err = NoErr
                  /\ ~IsNil(calc.m)
                  /\ Denominator(calc.m) > 0
                  /\ Numerator(calc.m) * Denominator(calc.recv) * 100
                        = Numerator(calc.recv) * (100 - p) * Denominator(calc.m)
            /\ (p < 0 \/ p > 100) =>
                  calc.err = ErrDiscountOutOfRange /\ IsNil(calc.m)

C15_Witness ==
    /\ calc.op = "ApplyPercentage"
    /\ calc.ints = <<20>>
    /\ calc.recv = NewMoney(1999, 100).m
    /\ calc.depth = 1
    /\ Numerator(calc.m) * 10000 = 1999 * 80 * Denominator(calc.m)
    /\ calc.err = NoErr

\* C16: every Money that NewMoney, ApplyPercentage with p in [0,100] or Add
\* returns has a non-zero denominator and a value greater than 0.
C16_MoneyPositive ==
    (calc.op \in {"NewMoney", "ApplyPercentage", "Add"} /\ ~IsNil(calc.m)) =>
        /\ Denominator(calc.m) # 0
        /\ Numerator(calc.m) * Denominator(calc.m) > 0

\* C17: NewMoney(a, b) fails with InvalidPrice exactly when b = 0 or a/b <= 0
\* (negative over negative is accepted) and otherwise returns the value a/b;
\* Equals is a*d = c*b and GreaterThan is a/b > c/d on the exact values.
C17_NewMoneyAndComparison ==
    /\ calc.op = "NewMoney" =>
          LET a == calc.ints[1]
              b == calc.ints[2]
          IN  /\ calc.err \in {NoErr, ErrInvalidPrice}
              /\ (calc.err = ErrInvalidPrice) <=> (b = 0 \/ a * b <= 0)
              /\ calc.err = ErrInvalidPrice => IsNil(calc.m)
              /\ calc.err = NoErr =>
                    /\ ~IsNil(calc.m)
                    /\ Denominator(calc.m) # 0
                    /\ Numerator(calc.m) * b = a * Denominator(calc.m)
    /\ calc.op = "Compare" =>
          LET a == calc.ints[1]
              b == calc.ints[2]
              c == calc.ints[3]
              d == calc.ints[4]
          IN  /\ calc.bools[1] <=> (a * d = c * b)
              /\ calc.bools[2] <=> (a * b * d * d > c * d * b * b)

C17_Witness ==
    /\ calc.op = "Compare"
    /\ calc.ints = <<-1, -2, 1, 2>>
    /\ calc.bools = <<TRUE, FALSE>>

\* C18: NewDiscount fails with DiscountOutOfRange when percentage < 0 or
\* percentage > 100, otherwise with InvalidDateRange when end < start, and
\* otherwise succeeds, also for start = end; a Discount that exists has
\* percentage in [0,100] and startDate <= endDate.
C18_NewDiscount ==
    calc.op = "NewDiscount" =>
        LET percentage == calc.ints[1]
            startDate == calc.ints[2]
            endDate == calc.ints[3]
        IN  /\ IF percentage < 0 \/ percentage > 100
               THEN calc.err = ErrDiscountOutOfRange /\ IsNil(calc.d)
               ELSE IF endDate < startDate
               THEN calc.err = ErrInvalidDateRange /\ IsNil(calc.d)
               ELSE /\ calc.err = NoErr
                    /\ ~IsNil(calc.d)
                    /\ Percentage(calc.d) = percentage
                    /\ StartDate(calc.d) = startDate
                    /\ EndDate(calc.d) = endDate
            /\ ~IsNil(calc.d) =>
                  /\ 0 <= Percentage(calc.d) /\ Percentage(calc.d) <= 100
                  /\ StartDate(calc.d) <= EndDate(calc.d)

C18_Witness ==
    /\ calc.op = "NewDiscount"
    /\ calc.err = NoErr
    /\ ~IsNil(calc.d)
    /\ StartDate(calc.d) = EndDate(calc.d)
    /\ Percentage(calc.d) = 100

====
